---- MODULE Spec2Model ----
(***************************************************************************)
(* A model of serverless-dns/trie: the 16-bit bit buffer (bufreader.js,    *)
(* bufwriter.js), the popcount table (bitsutil.js), the tag bitmap         *)
(* (stamp.js), the rank directory (rank.js), the trie builder (trie.js)    *)
(* and the frozen trie reader (ftrie.js).                                  *)
(*                                                                         *)
(* JavaScript numbers are modelled as integers.  The bitwise operators     *)
(* keep their 32-bit width (I32, Wide). The values NaN and undefined, which *)
(* the code produces when it indexes past the end of a table, are the      *)
(* integer NaN below; a thrown Error is one of the Err values.             *)
(***************************************************************************)
EXTENDS Integers, Sequences, FiniteSets, TLC

----------------------------------------------------------------------------
(* Bounds of the model.                                                    *)

\* most fields written to a BitWriter in the bit-buffer specification
MaxFields == 3
\* most tags folded into one bitmap in the tag specification
MaxTags == 4
\* most ordinals of a bitmap whose words are decoded with a word cut or added
MaxCutTags == 2
MaxRankNodes == 3
MaxRankLabels == 3

----------------------------------------------------------------------------
(* JavaScript arithmetic.                                                  *)

\* NaN and undefined; the two errors BitString.pos0 throws.  All three lie
\* outside the values the modelled code computes.
NaN == 0 - 1000000001
ErrOutOfBounds == 0 - 1000000002
ErrOutOfIter == 0 - 1000000003

IsErr(x) == x = ErrOutOfBounds \/ x = ErrOutOfIter

\* the TypeError of a method call on undefined
ErrTypeError == 0 - 1000000004
\* a number the integers of the model do not hold: one with a fraction, one
\* of ten digits or more, an infinity
NotHeld == 0 - 1000000005

\* ToInt32 of ECMAScript on the values of the model, which are kept as
\* signed 32-bit integers: NaN and undefined convert to 0
I32(x) == IF x = NaN THEN 0 ELSE x

MinInt32 == 0 - 2147483647 - 1

\* two's complement and/or: x \div 2 rounds down and x % 2 is the low bit,
\* so 0 and -1 are the two fixed points of the halving
RECURSIVE AndS(_, _)
AndS(a, b) ==
  IF a = 0 \/ b = 0 THEN 0
  ELSE IF a = 0 - 1 THEN b
  ELSE IF b = 0 - 1 THEN a
  ELSE (IF a % 2 = 1 /\ b % 2 = 1 THEN 1 ELSE 0) + 2 * AndS(a \div 2, b \div 2)

RECURSIVE OrS(_, _)
OrS(a, b) ==
  IF a = 0 THEN b
  ELSE IF b = 0 THEN a
  ELSE IF a = 0 - 1 \/ b = 0 - 1 THEN 0 - 1
  ELSE (IF a % 2 = 1 \/ b % 2 = 1 THEN 1 ELSE 0) + 2 * OrS(a \div 2, b \div 2)

\* a & b, a | b, a << k, a >> k on 32-bit operands; a shift count is taken
\* modulo 32 after ToInt32 (NaN and undefined shift by 0)
BitAnd(a, b) == AndS(I32(a), I32(b))
BitOr(a, b) == OrS(I32(a), I32(b))
Shl(a, k) ==
  IF I32(k) % 32 = 0 THEN I32(a)
  ELSE IF I32(k) % 32 = 31 THEN (IF I32(a) % 2 = 1 THEN MinInt32 ELSE 0)
  ELSE (I32(a) % (2 ^ (31 - (I32(k) % 32)))) * (2 ^ (I32(k) % 32))
         + (IF (I32(a) \div (2 ^ (31 - (I32(k) % 32)))) % 2 = 1 THEN MinInt32 ELSE 0)
Shr(a, k) ==
  IF I32(k) % 32 = 31 THEN (IF I32(a) < 0 THEN 0 - 1 ELSE 0)
  ELSE I32(a) \div (2 ^ (I32(k) % 32))

\* A number of 2^31 .. 2^32 - 1.  Only >>> and the literal 0xffff_ffff give
\* one, and the integers of TLC end at 2^31 - 1, so it is written as the pair
\* of its high and its low 16 bits: Wide(65535, 65535) is 4294967295.
Wide(hi, lo) == << hi, lo >>
\* ToInt32 of such a number, which the bitwise operators apply to it
WideToInt32(w) == ((w[1] - 65536) * 65536) + w[2]

\* a >>> k: the bits of ToInt32(a) read as an unsigned number and shifted
UShr(a, k) ==
  IF I32(k) % 32 = 31 THEN (IF I32(a) < 0 THEN 1 ELSE 0)
  ELSE IF I32(a) >= 0 THEN I32(a) \div (2 ^ (I32(k) % 32))
  ELSE IF I32(k) % 32 = 0 THEN Wide((I32(a) \div 65536) + 65536, I32(a) % 65536)
  ELSE ((I32(a) \div (2 ^ (I32(k) % 32))) + 2 ^ (31 - (I32(k) % 32)))
         + 2 ^ (31 - (I32(k) % 32))
\* ToInt32(a >>> k): a >>> k as the operand of a bitwise operator
UShrInt32(a, k) ==
  IF I32(a) < 0 /\ I32(k) % 32 = 0 THEN WideToInt32(UShr(a, k)) ELSE UShr(a, k)

\* a + b where either may be NaN (number + undefined is NaN)
JsAdd(a, b) == IF a = NaN \/ b = NaN THEN NaN ELSE a + b
JsSub(a, b) == IF a = NaN \/ b = NaN THEN NaN ELSE a - b

Max(a, b) == IF a >= b THEN a ELSE b
Min(a, b) == IF a <= b THEN a ELSE b

----------------------------------------------------------------------------
(* config.js                                                               *)

\* width in bits of one unit of a bit buffer
W == 16
\* sizes of the two levels of the rank directory
L1 == 1024
L2 == 32

----------------------------------------------------------------------------
(* bitsutil.js                                                             *)

bitsSetTable256[i \in 0..255] ==
  IF i = 0 THEN 0 ELSE (i % 2) + bitsSetTable256[i \div 2]

\* bitsSetTable256[k] as the code reads it: undefined past the 256 entries
TableAt(k) == IF k \in 0..255 THEN bitsSetTable256[k] ELSE NaN

countSetBits(n) ==
  bitsSetTable256[BitAnd(n, 255)]
    + bitsSetTable256[BitAnd(UShr(n, 8), 255)]
    + bitsSetTable256[BitAnd(UShr(n, 16), 255)]
    + bitsSetTable256[UShr(n, 24)]

----------------------------------------------------------------------------
(* bufreader.js                                                            *)

MaskTop ==
  << 65535, 32767, 16383, 8191, 4095, 2047, 1023, 511, 255,
     127, 63, 31, 15, 7, 3, 1, 0 >>

MaskBottom ==
  << 65535, 65534, 65532, 65528, 65520, 65504, 65472, 65408, 65280,
     65024, 64512, 63488, 61440, 57344, 49152, 32768, 0 >>

\* this.bytes[k]: undefined (0 under a bitwise operator) outside the array
ByteAt(bytes, k) == IF k >= 0 /\ k < Len(bytes) THEN bytes[k + 1] ELSE 0

\* BitString.length
BitLength(bytes) == Len(bytes) * W

\* a % b and (a / b) | 0 of JavaScript for b > 0: the remainder has the sign
\* of a and the quotient is cut toward zero
JsRem(a, b) == IF a >= 0 THEN a % b ELSE 0 - ((0 - a) % b)
JsQuot(a, b) == IF a >= 0 THEN a \div b ELSE 0 - ((0 - a) \div b)

\* MaskTop[W][k]: undefined outside the table
MaskTopAt(k) == IF k \in 0..16 THEN MaskTop[k + 1] ELSE NaN

RECURSIVE getWhile(_, _, _, _)
getWhile(bytes, result, p, n) ==
  IF n >= W
  THEN getWhile(bytes, BitOr(Shl(result, W), ByteAt(bytes, JsQuot(p, W))), p + W, n - W)
  ELSE IF n > 0
  THEN BitOr(Shl(result, n), Shr(ByteAt(bytes, JsQuot(p, W)), W - n))
  ELSE result

\* get with r = p % W
getAt(bytes, p, n, r) ==
  IF r + n <= W
  THEN Shr(BitAnd(ByteAt(bytes, JsQuot(p, W)), MaskTopAt(r)), W - r - n)
  ELSE getWhile(bytes, BitAnd(ByteAt(bytes, JsQuot(p, W)), MaskTopAt(r)),
                p + (W - r), n - (W - r))

\* BitString.get: n bits from position p.  A NaN position or width fails
\* every comparison: the second case runs without its loops, on unit 0 under
\* an undefined mask for a NaN position
get(bytes, p, n) ==
  IF p = NaN THEN 0
  ELSE IF n = NaN THEN BitAnd(ByteAt(bytes, JsQuot(p, W)), MaskTopAt(JsRem(p, W)))
  ELSE getAt(bytes, p, n, JsRem(p, W))

RECURSIVE countWhile(_, _, _, _)
countWhile(bytes, cnt, p, n) ==
  IF n >= 16
  THEN countWhile(bytes, JsAdd(cnt, TableAt(get(bytes, p, 16))), p + 16, n - 16)
  ELSE JsAdd(cnt, TableAt(get(bytes, p, n)))

\* BitString.count: the one-bits of positions p .. p+n-1
count(bytes, p, n) == countWhile(bytes, 0, p, n)

\* n ^ 0x1
BitXor1(n) == IF n % 2 = 0 THEN n + 1 ELSE n - 1

RECURSIVE bit0pWhile(_, _, _, _)
bit0pWhile(n, p, c, i) ==
  IF n > 0 /\ p > c
  THEN bit0pWhile(UShr(n, 1), p,
                  (IF c + (IF n < BitXor1(n) THEN 1 ELSE 0) # 0 THEN 1 ELSE 0),
                  i + 1)
  ELSE [index |-> IF p = c THEN i ELSE 0, scanned |-> i]

bit0p(n, p) ==
  IF p = 0 THEN [index |-> 0, scanned |-> 0]
  ELSE IF n = 0 /\ p = 1 THEN [index |-> 1, scanned |-> 1]
  ELSE bit0pWhile(n, p, 0, 0)

bit0(n, p, pad) ==
  LET r == bit0p(n, p) IN
  IF r.scanned <= 0 THEN r.scanned
  ELSE IF r.index > 0 THEN r.scanned
  ELSE IF pad > r.scanned THEN r.scanned + 1
  ELSE 0

RECURSIVE pos0While(_, _, _, _, _, _)
pos0While(bytes, i, n, step, iter, index) ==
  IF n <= 0 THEN index
  ELSE IF i > BitLength(bytes) THEN ErrOutOfBounds
  ELSE IF iter * 10 > BitLength(bytes) THEN ErrOutOfIter
  ELSE LET d == get(bytes, i, step)
           bits0 == step - countSetBits(d)
       IN IF n - bits0 < 0
          THEN pos0While(bytes, i, n, Max(n, step \div 2), iter, index)
          ELSE pos0While(bytes, i + step, n - bits0, step, iter + step,
                         (i + step) - (IF n - bits0 = 0 THEN bit0(d, 1, step) ELSE 1))

\* BitString.pos0: the index of the n-th zero bit at or after i
pos0(bytes, i, n) ==
  IF n < 0 THEN 0
  ELSE IF n = 0 THEN i
  ELSE pos0While(bytes, i, n, 16, 0, i)

----------------------------------------------------------------------------
(* bufwriter.js                                                            *)

\* arr[k] = v on a JavaScript array: an index at the end appends
SetAt(arr, k, v) ==
  IF k < Len(arr) THEN [arr EXCEPT ![k + 1] = v] ELSE Append(arr, v)

\* BitWriter.write16 with the remaining bits dropped instead of carried over
write16DropsCarry(bw, data, numBits) ==
  LET brim == 16 - (bw.top % 16)
      cur == bw.top \div 16
      e == BitOr(ByteAt(bw.bits16, cur), 0)
      masked == BitAnd(data, MaskTop[(16 - numBits) + 1])
      b == IF brim >= numBits THEN Shl(masked, brim - numBits)
           ELSE UShr(masked, numBits - brim)
  IN [bits16 |-> SetAt(bw.bits16, cur, BitOr(e, b)), top |-> bw.top + numBits,
      err |-> "none"]

\* BitWriter.write16: numBits (at most 16) low bits of data, MSB first.
\* For more than 16 bits it reaches log.e, and bufwriter.js imports no log:
\* the call throws a ReferenceError and leaves the writer as it was.
write16(bw, data, numBits) ==
  IF numBits > 16 THEN [bw EXCEPT !.err = "ReferenceError"]
  ELSE
  LET brim == 16 - (bw.top % 16)
      cur == bw.top \div 16
      e == BitOr(ByteAt(bw.bits16, cur), 0)
      masked == BitAnd(data, MaskTop[(16 - numBits) + 1])
      remainingBits == IF brim >= numBits THEN 0 ELSE numBits - brim
      b == IF brim >= numBits THEN Shl(masked, brim - numBits)
           ELSE UShr(masked, remainingBits)
      first == SetAt(bw.bits16, cur, BitOr(e, b))
      rest == Shl(BitAnd(data, MaskTop[(16 - remainingBits) + 1]), 16 - remainingBits)
  IN [bits16 |-> IF remainingBits > 0 THEN SetAt(first, cur + 1, rest) ELSE first,
      top |-> bw.top + numBits, err |-> "none"]

RECURSIVE write(_, _, _)
\* write's loop after a call of write16: what write16 throws ends it
writeNext(bw, data, numBits) ==
  IF bw.err # "none" THEN bw ELSE write(bw, data, numBits)

\* BitWriter.write: numBits (at most 32) low bits of data.  b is
\* data >>> (i * 16) as write16 takes it into its n & mask
write(bw, data, numBits) ==
  IF numBits > 0
  THEN LET i == (numBits - 1) \div 16
           b == UShrInt32(data, i * 16)
           l == IF numBits % 16 = 0 THEN 16 ELSE numBits % 16
       IN writeNext(write16(bw, b, l), data, numBits - l)
  ELSE bw

\* new BitWriter(); err is what the last call on the writer threw
NewBitWriter == [bits16 |-> << >>, top |-> 0, err |-> "none"]

\* BitWriter.getData: the 16-bit units written
getData(bw) == bw.bits16

----------------------------------------------------------------------------
(* b64.js and stamp.js: a string of 16-bit characters is the sequence of   *)
(* its character codes.                                                    *)

\* chr16: String.fromCharCode keeps the low 16 bits
chr16(ord) == I32(ord) % 65536
\* dec16(str[k]): charCodeAt(0) of the character; past the end of the
\* string str[k] is undefined and the call throws a TypeError
dec16(str, k) == IF k >= 0 /\ k < Len(str) THEN str[k + 1] ELSE ErrTypeError

\* MaskBottom[16][k]: undefined outside the table
MaskBottomAt(k) == IF k \in 0..16 THEN MaskBottom[k + 1] ELSE NaN
\* (val / 16) | 0 and val % 16
groupOf(val) == IF val = NaN THEN 0 ELSE JsQuot(val, 16)
posOf(val) == IF val = NaN THEN NaN ELSE JsRem(val, 16)

\* str.slice(from, to) and str.slice(from)
slice2(str, from, to) == SubSeq(str, from + 1, Min(to, Len(str)))
slice1(str, from) == SubSeq(str, from + 1, Len(str))

\* the body of tagsToFlags' loop with the group word always spliced in as a
\* new word, an existing word of the group never merged
upsertTagNoMerge(res, val) ==
  LET index == groupOf(val)
      pos == posOf(val)
      h == dec16(res, 0)
      dataIndex == countSetBits(BitAnd(h, MaskBottomAt(16 - index))) + 1
      h2 == BitOr(h, Shl(1, 15 - index))
      n2 == Shl(1, JsSub(15, pos))
  IN << chr16(h2) >> \o slice2(res, 1, dataIndex) \o << chr16(n2) >>
       \o slice1(res, dataIndex)

\* the body of tagsToFlags' loop: fold the ordinal val into the bitmap res;
\* the TypeError of dec16 takes the place of the bitmap
upsertTag(res, val) ==
  LET index == groupOf(val)
      pos == posOf(val)
      h == dec16(res, 0)
      dataIndex == countSetBits(BitAnd(h, MaskBottomAt(16 - index))) + 1
      n == IF BitAnd(UShr(h, 15 - index), 1) # 1 THEN 0 ELSE dec16(res, dataIndex)
      upsertData == n # 0
      h2 == BitOr(h, Shl(1, 15 - index))
      n2 == BitOr(n, Shl(1, JsSub(15, pos)))
  IN IF h = ErrTypeError \/ n = ErrTypeError THEN << ErrTypeError >>
     ELSE << chr16(h2) >> \o slice2(res, 1, dataIndex) \o << chr16(n2) >>
            \o slice1(res, IF upsertData THEN dataIndex + 1 ELSE dataIndex)

RECURSIVE tagsToFlagsFrom(_, _, _)
tagsToFlagsFrom(res, tags, k) ==
  IF k > Len(tags) THEN res
  ELSE tagsToFlagsFrom(upsertTag(res, tags[k]), tags, k + 1)

\* tagsToFlags: the bitmap of a list of ordinals, as a 16-bit string
tagsToFlags(tags) == tagsToFlagsFrom(<< chr16(0) >>, tags, 1)

\* flags[k] of an array; undefined (NaN here) outside it
ArrAt(arr, k) == IF k >= 0 /\ k < Len(arr) THEN arr[k + 1] ELSE NaN

\* flagsToTags' first loop: the groups the header names. Iteration i is
\* reached when no earlier header << i' was 0, and its mask is 0x8000 >>> i
tagIndicesFor(header) ==
  SelectSeq([k \in 1..16 |-> k - 1],
            LAMBDA i : /\ \A j \in 0..i : Shl(header, j) # 0
                       /\ BitAnd(header, UShr(32768, i)) = UShr(32768, i))

\* flagsToTags' inner loop: the ordinals one group word names
flagValuesFor(flag, index) ==
  LET hits == SelectSeq([k \in 1..16 |-> k - 1],
                LAMBDA j : /\ \A jj \in 0..j : Shl(flag, jj) # 0
                           /\ BitAnd(flag, UShr(32768, j)) = UShr(32768, j))
  IN [k \in 1..Len(hits) |-> index * 16 + hits[k]]

RECURSIVE flagsToTagsFrom(_, _, _, _)
flagsToTagsFrom(flags, tagIndices, i, values) ==
  IF i >= Len(flags) THEN values
  ELSE flagsToTagsFrom(flags, tagIndices, i + 1,
         values \o flagValuesFor(ArrAt(flags, i + 1), ArrAt(tagIndices, i)))

\* flagsToTags: the ordinals of a bitmap given as 16-bit integers
flagsToTags(flags) ==
  LET tagIndices == tagIndicesFor(ArrAt(flags, 0)) IN
  IF Len(tagIndices) # Len(flags) - 1 THEN << >>
  ELSE flagsToTagsFrom(flags, tagIndices, 0, << >>)

----------------------------------------------------------------------------
(* rank.js: a directory is a record of the directory and data streams and  *)
(* the fields init derives; createRankDirectory gives it with the error it *)
(* threw, if any (err = 0: none).                                          *)

\* Math.ceil(Math.log2(n)) for n >= 1
RECURSIVE CeilLog2(_)
CeilLog2(n) == IF n <= 1 THEN 0 ELSE 1 + CeilLog2((n + 1) \div 2)

\* RankDirectory.init
RankDirectory(rdv, tdv, cfg) ==
  [directory |-> rdv, data |-> tdv,
   numBits |-> cfg.nodecount * 2 + 1,
   l1Bits |-> CeilLog2(cfg.nodecount * 2 + 1),
   l2Bits |-> CeilLog2(L1),
   sectionBits |-> (L1 \div L2 - 1) * CeilLog2(L1) + CeilLog2(cfg.nodecount * 2 + 1),
   selectsearch |-> cfg.selectsearch]

RECURSIVE popcountLoop(_, _, _, _, _, _, _, _, _)
\* createRankDirectory's loop of the popcount layout
popcountLoop(bytes, numBits, l1bits, l2bits, p, i, count1, count2, dir) ==
  IF p + L2 > numBits THEN dir
  ELSE LET c2 == JsAdd(count2, count(bytes, p, L2)) IN
       IF i + L2 = L1
       THEN popcountLoop(bytes, numBits, l1bits, l2bits, p + L2, 0,
                         JsAdd(count1, c2), 0, write(dir, JsAdd(count1, c2), l1bits))
       ELSE popcountLoop(bytes, numBits, l1bits, l2bits, p + L2, i + L2,
                         count1, c2, write(dir, c2, l2bits))

RECURSIVE selectLoop(_, _, _, _, _)
\* createRankDirectory's loop of the select-as-rank layout
selectLoop(bytes, numBits, l1bits, i, dir) ==
  IF i + L2 > numBits THEN [dir |-> dir, err |-> 0]
  ELSE LET sel == pos0(bytes, i, L2) IN
       IF IsErr(sel) THEN [dir |-> dir, err |-> sel]
       ELSE selectLoop(bytes, numBits, l1bits, sel + 1, write(dir, sel, l1bits))

createRankDirectory(data, config) ==
  LET numBits == config.nodecount * 2 + 1
      l1bits == CeilLog2(numBits)
      l2bits == CeilLog2(L1)
      built == IF config.selectsearch = FALSE
               THEN [dir |-> popcountLoop(data, numBits, l1bits, l2bits,
                                          0, 0, 0, 0, NewBitWriter),
                     err |-> 0]
               ELSE selectLoop(data, numBits, l1bits, 0, NewBitWriter)
  IN [rd |-> RankDirectory(getData(built.dir), data, config), err |-> built.err]

\* RankDirectory.rank of the select-as-rank layout
rankSelectsearch(rd, x) ==
  LET rank == IF x >= L2
              THEN get(rd.directory, ((x \div L2) * rd.l1Bits) - rd.l1Bits, rd.l1Bits)
              ELSE 0 - 1
      xr == IF x >= L2 THEN x % L2 ELSE x
  IN IF xr > 0 THEN pos0(rd.data, rank + 1, xr) ELSE rank

\* RankDirectory.rank(1, x) of the popcount layout
rankPopcount1(rd, x) ==
  LET sec1 == IF x >= L1 THEN (x \div L1) * rd.sectionBits ELSE 0
      rank1 == IF x >= L1 THEN get(rd.directory, sec1 - rd.l1Bits, rd.l1Bits) ELSE 0
      o == IF x >= L1 THEN x % L1 ELSE x
      sec2 == IF o >= L2 THEN sec1 + (o \div L2) * rd.l2Bits ELSE sec1
      rank2 == IF o >= L2
               THEN JsAdd(rank1, get(rd.directory, sec2 - rd.l2Bits, rd.l2Bits))
               ELSE rank1
  IN JsAdd(rank2, count(rd.data, x - (x % L2), (x % L2) + 1))

\* RankDirectory.rank
rank(rd, which, x) ==
  IF rd.selectsearch THEN rankSelectsearch(rd, x)
  ELSE IF which = 0 THEN JsAdd(JsSub(x, rankPopcount1(rd, x)), 1)
  ELSE rankPopcount1(rd, x)

RECURSIVE selectWhile(_, _, _, _, _, _)
\* RankDirectory.select's binary search; a comparison with NaN is false
selectWhile(rd, which, y, high, low, val) ==
  IF high = NaN \/ high - low <= 1 THEN val
  ELSE LET probe == (high + low) \div 2
           r == rank(rd, which, probe)
       IN IF r = y THEN selectWhile(rd, which, y, probe, low, probe)
          ELSE IF r # NaN /\ r < y THEN selectWhile(rd, which, y, high, probe, val)
          ELSE selectWhile(rd, which, y, probe, low, val)

\* RankDirectory.select
select(rd, which, y) ==
  IF rd.selectsearch THEN rank(rd, 0, y)
  ELSE selectWhile(rd, which, y, rd.numBits, 0 - 1, 0 - 1)

----------------------------------------------------------------------------
(* trie.js: the child-count stream encode writes.                          *)

\* 0xffff_ffff
all1 == Wide(65535, 65535)
maxbits == countSetBits(WideToInt32(all1))

RECURSIVE writeOnes(_, _)
\* encode's inner loop: rem one-bits, at most maxbits per write
writeOnes(bw, rem) ==
  IF Min(rem, maxbits) <= 0 THEN bw
  ELSE writeOnes(write(bw, UShrInt32(WideToInt32(all1), maxbits - Min(rem, maxbits)),
                       Min(rem, maxbits)),
                 rem - Min(rem, maxbits))

\* one node's entry of the child-count stream: size ones and a zero
writeChildCount(bw, size) == write(writeOnes(bw, IF size > 0 THEN size ELSE 0), 0, 1)

RECURSIVE writeChildCounts(_, _, _)
\* encode's loop over the level-order list; a node's entry is written
\* (bits.top has advanced) before the next node is taken up
writeChildCounts(bw, sizes, k) ==
  IF k > Len(sizes) \/ bw.top < 0 THEN bw
  ELSE writeChildCounts(writeChildCount(bw, sizes[k]), sizes, k + 1)

RECURSIVE writeLetters(_, _, _, _)
\* encode's last loop: one entry of bitslen bits per node
writeLetters(bw, chars, bitslen, k) ==
  IF k > Len(chars) \/ bw.top < 0 THEN bw
  ELSE writeLetters(write(bw, chars[k], bitslen), chars, bitslen, k + 1)

\* the stream encode writes for nodes of the given child counts and letter
\* entries: the super-root's 0b10, the child counts, the letters
encodeStream(sizes, chars, bitslen) ==
  writeLetters(writeChildCounts(write(NewBitWriter, 2, 2), sizes, 1), chars, bitslen, 1)

----------------------------------------------------------------------------
(* codec.js: the tag codec. A text is the sequence of its character codes; *)
(* an encoded text is the sequence of its code units. The 6-bit code of a  *)
(* symbol is its position in Alphabet6, the 8-bit code its character code. *)

b6 == 6
b8 == 8
\* the reserved symbols: the tag delimiter '#' and the label separator '.'
delim == 35
period == 46

\* '#', '*', '-', '.', the digits, '_', the lower-case letters
Alphabet6 ==
  << 35, 42, 45, 46 >> \o [k \in 1..10 |-> 47 + k] \o << 95 >>
    \o [k \in 1..26 |-> 96 + k]

\* Codec.typ: the bits of a code unit
typ(cfg) == IF cfg.useCodec6 THEN b6 ELSE b8

\* the 6-bit code of a character; undefined (NaN here) outside the alphabet
ord6(c) ==
  IF \E k \in 1..Len(Alphabet6) : Alphabet6[k] = c
  THEN (CHOOSE k \in 1..Len(Alphabet6) : Alphabet6[k] = c) - 1
  ELSE NaN
\* the character of a 6-bit code
chr6(u) == IF u >= 0 /\ u < Len(Alphabet6) THEN Alphabet6[u + 1] ELSE NaN

\* Codec.encode and Codec.decode (this.proto.encode, this.proto.decode):
\* text to code units and back
protoEncode(cfg, str) ==
  [k \in 1..Len(str) |-> IF cfg.useCodec6 THEN ord6(str[k]) ELSE str[k] % 256]
protoDecode(cfg, units) ==
  [k \in 1..Len(units) |-> IF cfg.useCodec6 THEN chr6(units[k]) ELSE units[k]]

delimEncoded(cfg) == protoEncode(cfg, << delim >>)
periodEncoded(cfg) == protoEncode(cfg, << period >>)

\* arr.reverse()
reverse(arr) == [k \in 1..Len(arr) |-> arr[Len(arr) + 1 - k]]

\* Math.ceil(a / b) of non-negative a and positive b
CeilDiv(a, b) == (a + b - 1) \div b

\* bit q, counted from the first unit's most significant bit, of a stream of
\* w-bit units; 0 past its end
UnitBit(units, w, q) ==
  IF q < Len(units) * w
  THEN (units[(q \div w) + 1] \div (2 ^ (w - 1 - (q % w)))) % 2
  ELSE 0

RECURSIVE UnitBits(_, _, _, _)
\* the number the n bits from bit q of the stream spell
UnitBits(units, w, q, n) ==
  IF n = 0 THEN 0
  ELSE 2 * UnitBits(units, w, q, n - 1) + UnitBit(units, w, q + n - 1)

\* the stream of w-bit units cut again into count units of v bits
Repack(units, w, v, cnt) ==
  [j \in 1..cnt |-> UnitBits(units, w, (j - 1) * v, v)]

\* Codec.encode8 / decode8: bytes to code units (zero-padded) and back
encode8(cfg, u8) == Repack(u8, 8, typ(cfg), CeilDiv(Len(u8) * 8, typ(cfg)))
decode8(cfg, units) == Repack(units, typ(cfg), 8, (Len(units) * typ(cfg)) \div 8)
\* Codec.encode16 / decode16raw: 16-bit words to code units and back
encode16(cfg, str) == Repack(str, 16, typ(cfg), CeilDiv(Len(str) * 16, typ(cfg)))
decode16raw(cfg, units) ==
  Repack(units, typ(cfg), 16, (Len(units) * typ(cfg)) \div 16)

\* codec.str2buf: the character codes of a 16-bit string
str2buf(str) == [k \in 1..Len(str) |-> dec16(str, k - 1)]

\* StrWhiteSpaceChar
WhiteSpace ==
  {9, 10, 11, 12, 13, 32, 160, 5760, 8232, 8233, 8239, 8287, 12288, 65279}
    \cup (8192..8202)

RECURSIVE trimStart(_)
trimStart(str) ==
  IF str # << >> /\ Head(str) \in WhiteSpace THEN trimStart(Tail(str)) ELSE str
RECURSIVE trimEnd(_)
trimEnd(str) ==
  IF str # << >> /\ str[Len(str)] \in WhiteSpace
  THEN trimEnd(SubSeq(str, 1, Len(str) - 1)) ELSE str

\* the value of a digit of the radix, NaN for any other character
digitOf(c, radix) ==
  IF c \in 48..57 /\ c - 48 < radix THEN c - 48
  ELSE IF c \in 97..102 /\ radix = 16 THEN c - 87
  ELSE IF c \in 65..70 /\ radix = 16 THEN c - 55
  ELSE NaN

\* the first position from k on that holds no decimal digit
skipDigits(str, k) ==
  CHOOSE j \in k..(Len(str) + 1) :
    /\ j = Len(str) + 1 \/ str[j] \notin 48..57
    /\ \A i \in k..(j - 1) : str[i] \in 48..57

\* decimal digits without their leading zeros
stripDigits(digits) ==
  IF \A j \in 1..Len(digits) : digits[j] = 48 THEN << >>
  ELSE SubSeq(digits, CHOOSE j \in 1..Len(digits) :
                        digits[j] # 48 /\ \A i \in 1..(j - 1) : digits[i] = 48,
              Len(digits))

RECURSIVE foldDigits(_, _, _, _, _)
\* the digits str[k..hi] of the radix folded into acc
foldDigits(str, k, hi, radix, acc) ==
  IF k > hi THEN acc
  ELSE foldDigits(str, k + 1, hi, radix, acc * radix + digitOf(str[k], radix))

\* the decimal digits from str[k] on as a number; NaN when one is no digit,
\* and 1000000000 for every number of 10^9 or more
parseDigitsOf(digits) ==
  IF Len(digits) > 9 THEN 1000000000
  ELSE foldDigits(digits, 1, Len(digits), 10, 0)
parseDigits(str, k) ==
  IF \E j \in k..Len(str) : str[j] \notin 48..57 THEN NaN
  ELSE parseDigitsOf(stripDigits(SubSeq(str, k, Len(str))))

\* A number: NaN, an infinity, or sig * 2^exp with its sign, sig the
\* significand's bits from the highest on, without leading zeros (none for
\* zero) and of 53 bits at most unless the last ones are zeros.
Number(neg, sig, exp) ==
  [nan |-> FALSE, inf |-> FALSE, neg |-> neg, sig |-> sig, exp |-> exp]
NumberNaN == [nan |-> TRUE, inf |-> FALSE, neg |-> FALSE, sig |-> << >>, exp |-> 0]
NumberInfinity ==
  [nan |-> FALSE, inf |-> TRUE, neg |-> FALSE, sig |-> << >>, exp |-> 0]

RECURSIVE natBits(_)
\* the bits of a natural number, none for zero
natBits(n) == IF n = 0 THEN << >> ELSE Append(natBits(n \div 2), n % 2)

RECURSIVE bitsNat(_, _, _)
\* the natural number of the bits from the k-th on, folded into acc
bitsNat(bits, k, acc) ==
  IF k > Len(bits) THEN acc ELSE bitsNat(bits, k + 1, acc * 2 + bits[k])

\* the natural number of the last n bits, n under 31
lastBits(bits, n) == bitsNat(SubSeq(bits, Max(1, Len(bits) - n + 1), Len(bits)), 1, 0)

\* the bits without their last n
dropLast(bits, n) == SubSeq(bits, 1, Max(0, Len(bits) - n))

\* n zero bits
zeros(n) == [j \in 1..n |-> 0]

\* bits without their leading zeros
stripZeros(bits) ==
  IF \A j \in 1..Len(bits) : bits[j] = 0 THEN << >>
  ELSE SubSeq(bits, CHOOSE j \in 1..Len(bits) :
                      bits[j] = 1 /\ \A i \in 1..(j - 1) : bits[i] = 0,
              Len(bits))

RECURSIVE mulRange(_, _, _, _, _)
mulJoin(L, R) == [b |-> L.b \o R.b, c |-> L.c]
mulLeft(bits, lo, mid, m, R) == mulJoin(mulRange(bits, lo, mid, m, R.c), R)
\* bits[lo..hi] * m + carry: as many bits b, and the carry c out of them.
\* The lower half of the bits is multiplied first, its carry goes into the
\* upper half; the bits stay as they are where there is nothing to add.
mulRange(bits, lo, hi, m, carry) ==
  IF carry = 0 /\ m = 1 THEN [b |-> SubSeq(bits, lo, hi), c |-> 0]
  ELSE IF lo > hi THEN [b |-> << >>, c |-> carry]
  ELSE IF lo = hi
  THEN [b |-> << (bits[lo] * m + carry) % 2 >>, c |-> (bits[lo] * m + carry) \div 2]
  ELSE mulLeft(bits, lo, (lo + hi) \div 2, m,
               mulRange(bits, ((lo + hi) \div 2) + 1, hi, m, carry))

\* bits * m + carry, for m and carry up to 2^28
mulDone(r) == natBits(r.c) \o r.b
mulBy(bits, m, carry) == mulDone(mulRange(bits, 1, Len(bits), m, carry))

RECURSIVE digitBits(_, _, _, _, _)
\* the digits str[lo..hi] of the radix folded into the bits acc, up to seven
\* digits at a time; zeros folded into zero leave it zero
digitBits(str, lo, hi, radix, acc) ==
  IF lo > hi \/ (acc = << >> /\ \A j \in lo..hi : str[j] = 48) THEN acc
  ELSE IF hi - lo < 7
  THEN mulBy(acc, radix ^ (hi - lo + 1), foldDigits(str, lo, hi, radix, 0))
  ELSE digitBits(str, ((lo + hi) \div 2) + 1, hi, radix,
                 digitBits(str, lo, (lo + hi) \div 2, radix, acc))

RECURSIVE times10(_, _)
\* bits * 10^e
times10(bits, e) ==
  IF bits = << >> THEN << >>
  ELSE IF e <= 8 THEN mulBy(bits, 10 ^ e, 0)
  ELSE times10(times10(bits, e \div 2), e - (e \div 2))

RECURSIVE divRange(_, _, _, _, _)
divJoin(L, R) == [q |-> L.q \o R.q, r |-> R.r]
divRight(bits, mid, hi, d, L) == divJoin(L, divRange(bits, mid + 1, hi, d, L.r))
\* (rem * 2^n + bits[lo..hi]) \div d as n bits q, and the remainder r, for
\* rem under d and d up to 10^8.  The upper half of the bits is divided
\* first, its remainder goes into the lower half.
divRange(bits, lo, hi, d, rem) ==
  IF lo > hi THEN [q |-> << >>, r |-> rem]
  ELSE IF lo = hi
  THEN (IF rem * 2 + bits[lo] >= d
        THEN [q |-> << 1 >>, r |-> rem * 2 + bits[lo] - d]
        ELSE [q |-> << 0 >>, r |-> rem * 2 + bits[lo]])
  ELSE divRight(bits, (lo + hi) \div 2, hi, d,
                divRange(bits, lo, (lo + hi) \div 2, d, rem))

RECURSIVE divPow10(_, _)
divSticky(sticky, r) == IF sticky THEN [q |-> r.q, sticky |-> TRUE] ELSE r
divNext(r, k) == divSticky(r.sticky, divPow10(r.q, k))
divOnce(r) == [q |-> stripZeros(r.q), sticky |-> r.r # 0]
\* bits \div 10^k, and whether anything was left over on the way
divPow10(bits, k) ==
  IF k <= 8 THEN divOnce(divRange(bits, 1, Len(bits), 10 ^ k, 0))
  ELSE divNext(divPow10(bits, k \div 2), k - (k \div 2))

\* kept, or kept + 1
roundUp(kept, up) == IF up THEN mulBy(kept, 1, 1) ELSE kept

\* the bits without their last drop ones, rounded to the nearest, a tie to
\* the even; sticky tells that the exact number lies above the bits
roundBits(bits, drop, sticky) ==
  IF drop = 0 THEN bits
  ELSE IF drop > Len(bits) THEN << >>
  ELSE roundUp(SubSeq(bits, 1, Len(bits) - drop),
         /\ bits[Len(bits) - drop + 1] = 1
         /\ \/ sticky
            \/ \E j \in (Len(bits) - drop + 2)..Len(bits) : bits[j] = 1
            \/ (drop < Len(bits) /\ bits[Len(bits) - drop] = 1))

\* the double of sig * 2^exp
doubleOf(sig, exp) ==
  IF sig = << >> THEN Number(FALSE, << >>, 0)
  ELSE IF Len(sig) + exp > 1024 THEN NumberInfinity
  ELSE Number(FALSE, sig, exp)

\* the double nearest to q * 2^-s, or to what lies right above it: 53 bits
\* of significand, none under 2^-1074
rounded(q, s, sticky) ==
  doubleOf(roundBits(q, Max(Max(Len(q) - 53, s - 1074), 0), sticky),
           Max(Max(Len(q) - 53, s - 1074), 0) - s)

\* the double nearest to bits / 10^k, the division carried out on bits * 2^s
quotient(r, s) == rounded(r.q, s, r.sticky)
divided(bits, k, s) == quotient(divPow10(bits \o zeros(s), k), s)

\* digits * 10^e as a double, the digits without leading zeros.  What is
\* 10^309 or more is infinite, what is under 10^-324 is 0.
scale10(digits, e) ==
  IF digits = << >> THEN Number(FALSE, << >>, 0)
  ELSE IF Len(digits) + e >= 310 THEN NumberInfinity
  ELSE IF Len(digits) + e < 0 - 324 THEN Number(FALSE, << >>, 0)
  ELSE IF e >= 0
  THEN rounded(times10(digitBits(digits, 1, Len(digits), 10, << >>), e), 0, FALSE)
  ELSE divided(digitBits(digits, 1, Len(digits), 10, << >>), 0 - e,
               Max(0, ((10 * (0 - e)) \div 3) + 58 - Len(digits)))

\* the digits of an exponent as its value, NaN when a character among them
\* is no digit
exponentCut(x, sign) == IF x = NaN THEN NaN ELSE sign * x

\* ExponentPart from str[k] on (none at the end of the text): its value,
\* or NaN when the text does not end in one
exponentOf(str, k) ==
  IF k > Len(str) THEN 0
  ELSE IF str[k] \notin {69, 101} \/ k = Len(str) THEN NaN
  ELSE IF str[k + 1] \in {43, 45}
  THEN (IF k + 1 = Len(str) THEN NaN
        ELSE exponentCut(parseDigits(str, k + 2),
                         IF str[k + 1] = 45 THEN 0 - 1 ELSE 1))
  ELSE exponentCut(parseDigits(str, k + 1), 1)

\* digits * 10^(e - fraction) unless there is no exponent where one must be
scaledBy(digits, e, fraction) ==
  IF e = NaN THEN NumberNaN ELSE scale10(stripDigits(digits), e - fraction)

\* StrUnsignedDecimalLiteral with its integer digits ending before a and
\* its fraction, if any, before b
decimalAt(str, a, b) ==
  IF b - 1 = (IF a = b THEN 0 ELSE 1) THEN NumberNaN
  ELSE scaledBy(SubSeq(str, 1, a - 1) \o SubSeq(str, a + 1, b - 1),
                exponentOf(str, b), IF a = b THEN 0 ELSE b - a - 1)

\* StrUnsignedDecimalLiteral whose integer digits end before a
decimalFrom(str, a) ==
  IF a <= Len(str) /\ str[a] = 46 THEN decimalAt(str, a, skipDigits(str, a + 1))
  ELSE decimalAt(str, a, a)

\* StrUnsignedDecimalLiteral
unsignedDecimal(str) ==
  IF str = << 73, 110, 102, 105, 110, 105, 116, 121 >> THEN NumberInfinity
  ELSE decimalFrom(str, skipDigits(str, 1))

\* x, or -x
signed(x, neg) == IF x.nan THEN x ELSE [x EXCEPT !.neg = neg]

\* the radix of NonDecimalIntegerLiteral's prefix 0x, 0o or 0b
prefixRadix(c) == IF c \in {120, 88} THEN 16 ELSE IF c \in {111, 79} THEN 8 ELSE 2

\* NonDecimalIntegerLiteral: the digits after the prefix
nonDecimal(str, radix) ==
  IF \E k \in 3..Len(str) : digitOf(str[k], radix) = NaN THEN NumberNaN
  ELSE rounded(stripZeros(digitBits(str, 3, Len(str), radix, << >>)), 0, FALSE)

\* StrNumericLiteral
numericLiteral(str) ==
  IF Len(str) >= 2 /\ str[1] = 48 /\ str[2] \in {120, 88, 111, 79, 98, 66}
  THEN IF Len(str) = 2 THEN NumberNaN
       ELSE nonDecimal(str, prefixRadix(str[2]))
  ELSE signed(unsignedDecimal(IF str[1] \in {43, 45} THEN Tail(str) ELSE str),
              str[1] = 45)

\* ToNumber of a trimmed text
trimmedNumber(str) ==
  IF str = << >> THEN Number(FALSE, << >>, 0) ELSE numericLiteral(str)

\* the number a text stands for under JavaScript's arithmetic operators
\* (ToNumber of a string): 0 for the empty text, NaN for a text that is no
\* numeric literal
toNumber(str) == trimmedNumber(trimEnd(trimStart(str)))

\* the bits of a number before the point and the bits after it
intPart(v) ==
  IF v.exp >= 0 THEN v.sig \o zeros(v.exp)
  ELSE SubSeq(v.sig, 1, Max(0, Len(v.sig) + v.exp))
fracPart(v) ==
  IF v.exp >= 0 THEN << >>
  ELSE IF 0 - v.exp >= Len(v.sig) THEN zeros((0 - v.exp) - Len(v.sig)) \o v.sig
  ELSE SubSeq(v.sig, Len(v.sig) + v.exp + 1, Len(v.sig))

\* a number as an integer of the model: NaN for NaN, NotHeld for a number
\* with a fraction, of 10^9 or more, or infinite
heldNat(bits, neg) ==
  IF Len(bits) > 30 THEN NotHeld
  ELSE IF bitsNat(bits, 1, 0) >= 1000000000 THEN NotHeld
  ELSE IF neg THEN 0 - bitsNat(bits, 1, 0) ELSE bitsNat(bits, 1, 0)
held(v) ==
  IF v.nan THEN NaN
  ELSE IF v.inf \/ (\E j \in 1..Len(fracPart(v)) : fracPart(v)[j] = 1) THEN NotHeld
  ELSE heldNat(intPart(v), v.neg)

\* ToInt32 of the integer of the bits, or of the integer below zero
int32Of(x, neg) == IF neg /\ x # MinInt32 THEN 0 - x ELSE x
int32At(hi, lo) ==
  IF hi >= 32768 THEN ((hi - 65536) * 65536) + lo ELSE (hi * 65536) + lo
toInt32(bits, neg) ==
  int32Of(int32At(lastBits(dropLast(bits, 16), 16), lastBits(bits, 16)), neg)

\* upsertFlag's index = (val / 16) | 0
flagIndex(v) ==
  IF v.nan \/ v.inf THEN 0 ELSE toInt32(dropLast(intPart(v), 4), v.neg)

\* the integer part of the double nearest to t, t the bits with frac of
\* them after the point
truncRounded(t, frac) ==
  bitsNat(dropLast(roundBits(t, Max(0, Len(t) - 53), FALSE),
                   frac - Max(0, Len(t) - 53)), 1, 0)

\* 1 - f of the bits f after the point, f above zero
complement(f) == mulRange([j \in 1..Len(f) |-> 1 - f[j]], 1, Len(f), 1, 1).b

\* ToInt32(15 - pos) of pos = val % 16, which has the sign of val, the
\* integer p and the bits f after the point
shiftOf(p, f, neg) ==
  IF \A j \in 1..Len(f) : f[j] = 0 THEN (IF neg THEN 15 + p ELSE 15 - p)
  ELSE IF neg THEN truncRounded(natBits(15 + p) \o f, Len(f))
  ELSE IF p = 15 THEN 0
  ELSE truncRounded(stripZeros(natBits(14 - p) \o complement(f)), Len(f))

\* upsertFlag's 15 - pos as the shift operator takes it, pos = val % 16
flagShift(v) ==
  IF v.nan \/ v.inf THEN 0 ELSE shiftOf(lastBits(intPart(v), 4), fracPart(v), v.neg)
----------------------------------------------------------------------------
(* trie.js: the builder. The nodes of the trie are kept in a table and a   *)
(* node is referred to by its position in the table.                       *)

\* new TrieNode(letter); hasopt tells an optletter array from null
TrieNode(letter) ==
  [letter |-> letter, optletter |-> << >>, hasopt |-> FALSE, final |-> FALSE,
   children |-> << >>, compressed |-> FALSE, flag |-> FALSE]

\* Trie.init: the root, the cache holding it, a node count of one.  A root
\* of 0 and an empty cache stand for the null encode leaves in both.
NewTrie ==
  [nodes |-> << TrieNode(<< 0 - 1 >>) >>, root |-> 1, cache |-> << 1 >>,
   nodeCount |-> 1, previousWord |-> << >>, err |-> "none"]

\* the code units a flag node takes in the level order
flagNodeSize(cfg, c) ==
  IF cfg.optflags /\ c.hasopt
  THEN CeilDiv(Len(c.optletter) * 8, typ(cfg))
  ELSE CeilDiv(Len(c.letter) * 16, typ(cfg))

RECURSIVE childrenSizeFrom(_, _, _, _)
childrenSizeFrom(t, cfg, children, k) ==
  IF k > Len(children) THEN 0
  ELSE (IF t.nodes[children[k]].flag
        THEN flagNodeSize(cfg, t.nodes[children[k]])
        ELSE Len(t.nodes[children[k]].letter))
       + childrenSizeFrom(t, cfg, children, k + 1)

\* Trie.childrenSize: the level-order entries the children of tn take
childrenSize(t, cfg, tn) == childrenSizeFrom(t, cfg, tn.children, 1)

\* upsertFlag's fold into the flag node's bitmap res, with index, 15 - index
\* and 15 - pos as the table and the shift operators take them
upsertFlagBits(res, index, shift, posShift) ==
  LET h == dec16(res, 0)
      dataIndex ==
        countSetBits(BitAnd(h, MaskBottomAt(IF index \in 0..16 THEN 16 - index
                                            ELSE 0 - 1))) + 1
      n == IF BitAnd(UShr(h, shift), 1) # 1 THEN 0 ELSE dec16(res, dataIndex)
      upsertData == n # 0
      h2 == BitOr(h, Shl(1, shift))
      n2 == BitOr(n, Shl(1, posShift))
  IN IF h = ErrTypeError \/ n = ErrTypeError THEN << ErrTypeError >>
     ELSE << chr16(h2) >> \o slice2(res, 1, dataIndex) \o << chr16(n2) >>
            \o slice1(res, IF upsertData THEN dataIndex + 1 ELSE dataIndex)

upsertFlagAt(res, index, posShift) ==
  upsertFlagBits(res, index, (15 - (index % 32)) % 32, posShift)

\* upsertFlag's fold of the ordinal val into the flag node's bitmap res
upsertFlagLetter(res, val) == upsertFlagAt(res, flagIndex(val), flagShift(val))

\* the change of the node count with the bitmap's growth alone accounted
\* for, whatever form the flag node had and has
upsertFlagCountsBitmapOnly(cfg, hasfopt, optnodesize, resnodesize, newoptnodesize, newresnodesize) ==
  newresnodesize - resnodesize

\* upsertFlag's change of the node count: by the raw list's growth while
\* there is one, by the bitmap replacing the raw list, by the bitmap's growth
upsertFlagCounts(cfg, hasfopt, optnodesize, resnodesize, newoptnodesize, newresnodesize) ==
  IF cfg.optflags /\ hasfopt THEN newoptnodesize - optnodesize
  ELSE IF optnodesize > 0 THEN newresnodesize - optnodesize
  ELSE newresnodesize - resnodesize

\* upsertFlag of a flag that is not empty: val is the decoded flag as the
\* arithmetic of upsertFlag takes it, raw as the raw list holds it
upsertFlagHeld(t, cfg, id, val, raw) ==
  LET node == t.nodes[id]
      isNodeFlag == Len(node.children) > 0 /\ t.nodes[node.children[1]].flag
  IN
    LET newlyAdded == ~isNodeFlag
        fid == IF isNodeFlag THEN node.children[1] ELSE Len(t.nodes) + 1
        \* the children the node had are not carried over to the new list
        flagNode0 ==
          IF isNodeFlag THEN t.nodes[fid]
          ELSE [TrieNode(<< chr16(0) >>) EXCEPT
                  !.flag = TRUE,
                  !.hasopt = cfg.optflags,
                  !.optletter = IF cfg.optflags THEN << raw >> ELSE << >>]
        res == flagNode0.letter
        resnodesize ==
          IF ~newlyAdded THEN CeilDiv(Len(res) * 16, typ(cfg)) ELSE 0
        optnodesize ==
          IF ~newlyAdded /\ flagNode0.hasopt
          THEN CeilDiv(Len(flagNode0.optletter) * 8, typ(cfg)) ELSE 0
        flagNode1 ==
          IF ~newlyAdded /\ cfg.optflags /\ flagNode0.hasopt
          THEN IF Len(flagNode0.optletter) < 3
               THEN [flagNode0 EXCEPT !.optletter = Append(@, raw)]
               ELSE [flagNode0 EXCEPT !.optletter = << >>, !.hasopt = FALSE]
          ELSE flagNode0
        res2 == upsertFlagLetter(res, val)
        newresnodesize == CeilDiv(Len(res2) * 16, typ(cfg))
        newoptnodesize ==
          IF flagNode1.hasopt
          THEN CeilDiv(Len(flagNode1.optletter) * 8, typ(cfg)) ELSE 0
        flagNode2 == [flagNode1 EXCEPT !.letter = res2]
        nodes2 ==
          IF isNodeFlag THEN [t.nodes EXCEPT ![fid] = flagNode2]
          ELSE Append([t.nodes EXCEPT ![id].children = << fid >>], flagNode2)
    IN IF res2 = << ErrTypeError >>
       \* dec16 threw: the flag node is placed, its bitmap and the node
       \* count are as they were
       THEN [t EXCEPT !.nodes = IF isNodeFlag THEN [t.nodes EXCEPT ![fid] = flagNode1]
                                ELSE Append([t.nodes EXCEPT ![id].children = << fid >>],
                                            flagNode1),
                      !.err = "TypeError"]
       ELSE [t EXCEPT !.nodes = nodes2,
                      !.nodeCount = @ + upsertFlagCounts(cfg, flagNode1.hasopt,
                                           optnodesize, resnodesize,
                                           newoptnodesize, newresnodesize)]

upsertFlagOf(t, cfg, id, val) == upsertFlagHeld(t, cfg, id, val, held(val))

\* Trie.upsertFlag: add the encoded ordinal to the flag node of node id, or
\* with an empty flag take the flag node out
upsertFlag(t, cfg, id, encodedFlag) ==
  LET node == t.nodes[id]
      isNodeFlag == Len(node.children) > 0 /\ t.nodes[node.children[1]].flag
  IN
  IF Len(encodedFlag) = 0
  THEN IF ~isNodeFlag THEN t
       ELSE [t EXCEPT !.nodes[id].children = Tail(@),
                      !.nodes[id].flag = FALSE,
                      !.nodeCount = @ - flagNodeSize(cfg, t.nodes[node.children[1]])]
  ELSE upsertFlagOf(t, cfg, id, toNumber(protoDecode(cfg, encodedFlag)))

\* arr.lastIndexOf(x) counted from one, zero when x is not in arr
lastIndexOfFromOne(arr, x) ==
  IF \E k \in 1..Len(arr) : arr[k] = x
  THEN CHOOSE k \in 1..Len(arr) :
         arr[k] = x /\ \A m \in (k + 1)..Len(arr) : arr[m] # x
  ELSE 0

\* arr.lastIndexOf(x)
lastIndexOf(arr, x) ==
  IF \E k \in 1..Len(arr) : arr[k] = x
  THEN (CHOOSE k \in 1..Len(arr) :
          arr[k] = x /\ \A m \in (k + 1)..Len(arr) : arr[m] # x) - 1
  ELSE 0 - 1

RECURSIVE insertMatch(_, _, _, _)
\* insert's inner loop: match the word from p against a cached node's letters
insertMatch(word, letter, p, l) ==
  IF p < Len(word) /\ l < Len(letter)
  THEN IF word[p + 1] # letter[l + 1]
       THEN [p |-> p, l |-> l, topped |-> TRUE]
       ELSE insertMatch(word, letter, p + 1, l + 1)
  ELSE [p |-> p, l |-> l, topped |-> FALSE]

RECURSIVE insertWalk(_, _, _, _, _)
\* insert's outer loop: walk the word down the cached path of the last word
insertWalk(t, word, j, k, p) ==
  IF p < Len(word) /\ j < Len(t.cache)
  THEN LET r == insertMatch(word, t.nodes[t.cache[j + 1]].letter, p, 0)
           k2 == IF r.l > 0 THEN r.l ELSE k
           j2 == IF r.l > 0 THEN j + 1 ELSE j
       IN IF r.topped THEN [j |-> j2, k |-> k2, p |-> r.p]
          ELSE insertWalk(t, word, j2, k2, r.p)
  ELSE [j |-> j, k |-> k, p |-> p]

\* insert after upsertFlag on the new node second: the node is counted and
\* linked unless upsertFlag threw
insertSecond(t1b, w, nid, sid) ==
  IF t1b.err # "none" THEN t1b
  ELSE [t1b EXCEPT !.nodeCount = @ + Len(w),
                   !.nodes[nid].children = Append(@, sid),
                   !.cache = Append(@, sid)]

\* insert's last statement, not reached when upsertFlag threw
insertDone(t2, word) ==
  IF t2.err # "none" THEN t2 ELSE [t2 EXCEPT !.previousWord = word]

\* Trie.insert of an encoded word: reversed host, delimiter, ordinal digits
insert(t, cfg, word0) ==
  LET index == lastIndexOf(word0, delimEncoded(cfg)[1]) IN
  IF index <= 0 THEN [t EXCEPT !.err = "missing delim"]
  ELSE
    LET encodedFlag == slice1(word0, index + 1)
        word == slice2(word0, 0, index)
        m == insertWalk(t, word, 1, 0, 0)
        w == slice1(word, m.p)
        pos == m.j - 1
        nid == t.cache[pos + 1]
        node == t.nodes[nid]
        letter == slice2(node.letter, 0, m.k)
        cache1 == SubSeq(t.cache, 1, pos + 1)
        tnid == Len(t.nodes) + 1
        tn == [TrieNode(slice1(node.letter, Len(letter))) EXCEPT
                 !.final = node.final, !.flag = node.flag,
                 !.children = node.children]
        t1 ==
          IF Len(letter) > 0 /\ Len(letter) # Len(node.letter)
          THEN upsertFlag(
                 [t EXCEPT !.nodes = Append([t.nodes EXCEPT ![nid].letter = letter,
                                                            ![nid].children = << tnid >>,
                                                            ![nid].final = FALSE], tn),
                           !.cache = cache1],
                 cfg, nid, << >>)
          ELSE [t EXCEPT !.cache = cache1]
        sid == Len(t1.nodes) + 1
        t2 ==
          IF Len(w) = 0
          THEN upsertFlag([t1 EXCEPT !.nodes[nid].final = TRUE], cfg, nid, encodedFlag)
          ELSE insertSecond(
                 upsertFlag(
                   [t1 EXCEPT !.nodes = Append(@, [TrieNode(w) EXCEPT !.final = TRUE])],
                   cfg, sid, encodedFlag),
                 w, nid, sid)
    IN insertDone(t2, word)

\* new TrieNode2(letter): an auxiliary level-order entry
TrieNode2(letter) ==
  [aux |-> TRUE, id |-> 0, letter |-> letter, final |-> FALSE,
   compressed |-> FALSE, flag |-> FALSE, size |-> 0]

\* a node of the table as pushed to the level order, not yet scaled
LevelNode(t, id) ==
  [aux |-> FALSE, id |-> id, letter |-> 0, final |-> t.nodes[id].final,
   compressed |-> t.nodes[id].compressed, flag |-> t.nodes[id].flag, size |-> 0]

\* Trie.getFlagNodeIfExists: whether the first child is a flag node
getFlagNodeIfExists(t, children) ==
  Len(children) > 0 /\ t.nodes[children[1]].flag = TRUE

\* levelorder's entries of a flag node: one per code unit of its value
levelFlagUnits(cfg, flagNode) ==
  LET encValue == IF cfg.optflags /\ flagNode.hasopt
                  THEN encode8(cfg, flagNode.optletter)
                  ELSE encode16(cfg, flagNode.letter)
  IN [k \in 1..Len(encValue) |-> [TrieNode2(encValue[k]) EXCEPT !.flag = TRUE]]

RECURSIVE levelChildren(_, _, _)
\* levelorder's entries of the children from the i-th on: a compressed
\* entry per letter but the last, then the child itself
levelChildren(t, children, i) ==
  IF i > Len(children) THEN << >>
  ELSE LET current == t.nodes[children[i]] IN
       [j \in 1..(Len(current.letter) - 1) |->
          [TrieNode2(current.letter[j]) EXCEPT !.compressed = TRUE]]
         \o << LevelNode(t, children[i]) >>
         \o levelChildren(t, children, i + 1)

\* levelorder's pushes with the units of the flag node pushed after the
\* other children, not before them
levelPushedFlagsLast(t, cfg, node) ==
  levelChildren(t, node.children,
                IF getFlagNodeIfExists(t, node.children) THEN 2 ELSE 1)
    \o (IF getFlagNodeIfExists(t, node.children)
        THEN levelFlagUnits(cfg, t.nodes[node.children[1]])
        ELSE << >>)

\* what levelorder pushes for a node it visits: the units of its flag node,
\* then its other children, each after its compressed entries
levelPushed(t, cfg, node) ==
  (IF getFlagNodeIfExists(t, node.children)
   THEN levelFlagUnits(cfg, t.nodes[node.children[1]])
   ELSE << >>)
    \o levelChildren(t, node.children,
                     IF getFlagNodeIfExists(t, node.children) THEN 2 ELSE 1)

RECURSIVE levelorderFrom(_, _, _, _)
\* levelorder's loop over the growing list, from its n-th entry
levelorderFrom(t, cfg, level, n) ==
  IF n > Len(level) THEN level
  ELSE IF level[n].aux \/ level[n].flag
  THEN levelorderFrom(t, cfg, level, n + 1)
  ELSE LET node == t.nodes[level[n].id]
           pushed == levelPushed(t, cfg, node)
           scaled == [level[n] EXCEPT !.size = childrenSize(t, cfg, node),
                                      !.letter = node.letter[Len(node.letter)]]
       IN levelorderFrom(t, cfg, [level EXCEPT ![n] = scaled] \o pushed, n + 1)

\* Trie.levelorder: the entries of the trie in level order
levelorder(t, cfg) == levelorderFrom(t, cfg, << LevelNode(t, t.root) >>, 1)

\* the header bits encode puts above a letter
finalMask(cfg) == IF cfg.useCodec6 THEN 64 ELSE 256
compressedMask(cfg) == IF cfg.useCodec6 THEN 128 ELSE 512
flagMask(cfg) == IF cfg.useCodec6 THEN 192 ELSE 768

\* the letter entry encode writes for a level-order entry
encodeValue(cfg, node) ==
  LET v1 == IF node.final THEN BitOr(node.letter, finalMask(cfg)) ELSE node.letter
      v2 == IF node.compressed THEN BitOr(v1, compressedMask(cfg)) ELSE v1
  IN IF node.flag = TRUE THEN BitOr(v2, flagMask(cfg)) ELSE v2

\* Trie.encode: the level order written, the length of the child-count
\* stream (bits.top before the letters are written) and the data
encode(t, cfg) ==
  LET level == levelorder(t, cfg)
      sizes == [k \in 1..Len(level) |-> level[k].size]
      chars == [k \in 1..Len(level) |-> encodeValue(cfg, level[k])]
      bitslen == 2 + typ(cfg)
  IN [level |-> level,
      levlen |-> Len(level),
      nodecount |-> t.nodeCount,
      letterStart |-> writeChildCounts(write(NewBitWriter, 2, 2), sizes, 1).top,
      data |-> getData(encodeStream(sizes, chars, bitslen))]

\* lex: the order the build sorts the encoded words by
lex(a, b) ==
  LET n == Min(Len(a), Len(b))
      diffs == {i \in 1..n : a[i] # b[i]}
  IN IF diffs = {} THEN Len(a) - Len(b)
     ELSE LET i == CHOOSE i \in diffs : \A m \in diffs : i <= m
          IN a[i] - b[i]
----------------------------------------------------------------------------
(* ftrie.js: the frozen trie. A node is its index in the level order; an   *)
(* operation that calls select gives the error select threw in place of    *)
(* its result.                                                             *)

\* new FrozenTrie(data, rdir, nodeCount, ftconfig) and FrozenTrie.init;
\* ftconfig is the configuration after the defaults were assigned under it
FrozenTrie(data, rdir, nodeCount, ftconfig) ==
  [data |-> data, directory |-> rdir, extraBit |-> 2,
   bitslen |-> typ(ftconfig) + 2,
   letterStart |-> IF nodeCount = NaN THEN NaN ELSE nodeCount * 2 + 1,
   config |-> ftconfig]

\* createTrie: the views of the two buffers are the 16-bit units; new
\* RankDirectory(rdv, tdv, numbits, L1, L2) hands init a number where it
\* reads cfg.nodecount and keeps as config, so numBits, l1Bits and
\* sectionBits are NaN and config.selectsearch is undefined (falsy)
createTrie(tdbuf, rdbuf, ftconfig) ==
  FrozenTrie(tdbuf,
             [directory |-> rdbuf, data |-> tdbuf, numBits |-> NaN,
              l1Bits |-> NaN, l2Bits |-> CeilLog2(L1), sectionBits |-> NaN,
              selectsearch |-> FALSE],
             ftconfig.nodecount, ftconfig)

\* FrozenTrieNode.final, compressed, flag, where and letter of the node at
\* an index
final(ft, index) ==
  get(ft.data, JsAdd(ft.letterStart, index * ft.bitslen + 1), 1) = 1
compressed(ft, index) ==
  get(ft.data, JsAdd(ft.letterStart, index * ft.bitslen), 1) = 1
flag(ft, index) == compressed(ft, index) /\ final(ft, index)
where(ft, index) ==
  get(ft.data, JsAdd(ft.letterStart, index * ft.bitslen + ft.extraBit),
      ft.bitslen - ft.extraBit)
letter(ft, index) == where(ft, index)

\* select(...) - d, or the error select threw
selectLess(s, d) == IF IsErr(s) THEN s ELSE JsSub(s, d)

\* FrozenTrieNode.firstChild and childOfNextNode
firstChild(ft, index) == selectLess(select(ft.directory, 0, index + 1), index)
childOfNextNode(ft, index) ==
  selectLess(select(ft.directory, 0, index + 2), index + 1)

\* a FrozenTrieNode a lookup walks through: its index, and firstChild() and
\* childOfNextNode() as the node keeps them once computed (fcCached,
\* chCached); an error kept here is thrown where the value is first asked
FrozenTrieNode(ft, index) ==
  [index |-> index, fc |-> firstChild(ft, index), ch |-> childOfNextNode(ft, index)]

\* FrozenTrieNode.childCount: childOfNextNode() - firstChild()
childCount(node) ==
  IF IsErr(node.ch) THEN node.ch
  ELSE IF IsErr(node.fc) THEN node.fc
  ELSE JsSub(node.ch, node.fc)

\* FrozenTrieNode.getChild: the index of the i-th child
getChild(node, i) == node.fc + i

\* the flag nodes at the head of the childcount nodes from index fc on
leadingFlags(ft, fc, childcount) ==
  IF childcount <= 0 THEN 0
  ELSE CHOOSE n \in 0..childcount :
         /\ \A k \in 0..(n - 1) : flag(ft, fc + k)
         /\ (n = childcount \/ ~flag(ft, fc + n))

\* lastFlagChild's result for n leading flags among childcount children
lastFlagOf(n, childcount) ==
  IF childcount > 0 /\ n < childcount THEN n - 1 ELSE n

\* FrozenTrieNode.lastFlagChild: the index of the last flag child, -1
\* with none, the child count when every child is a flag
lastFlagChild(ft, node) ==
  IF IsErr(childCount(node)) THEN childCount(node)
  ELSE lastFlagOf(leadingFlags(ft, node.fc, childCount(node)), childCount(node))

\* value's words of the 8-bit codec: two letters a word, big-endian
value8(letters) ==
  [j \in 1..CeilDiv(Len(letters), 2) |->
     BitOr(Shl(letters[2 * j - 1], 8),
           IF 2 * j <= Len(letters) THEN letters[2 * j] ELSE 0)]

\* value's result from the letters of the flag children
valueOf(cfg, letters, optvalue) ==
  IF cfg.optflags /\ ((cfg.useCodec6 /\ Len(optvalue) <= 4) \/ Len(optvalue) <= 3)
  THEN str2buf(tagsToFlags(IF cfg.useCodec6 THEN decode8(cfg, optvalue)
                           ELSE optvalue))
  ELSE IF cfg.useCodec6 THEN decode16raw(cfg, optvalue)
  ELSE value8(letters)

\* the letters of the n nodes from index fc on
lettersFrom(ft, fc, n) == [k \in 1..n |-> letter(ft, fc + k - 1)]

\* FrozenTrieNode.value: the flag children's letters as 16-bit words
value(ft, node) ==
  IF IsErr(childCount(node)) THEN [err |-> childCount(node), val |-> << >>]
  ELSE [err |-> 0,
        val |-> valueOf(ft.config,
                  lettersFrom(ft, node.fc, leadingFlags(ft, node.fc, childCount(node))),
                  IF ft.config.useCodec6
                  THEN lettersFrom(ft, node.fc,
                                   leadingFlags(ft, node.fc, childCount(node)))
                  ELSE << >>)]

\* a node that is compressed and not a flag
compressedLetter(ft, index) == compressed(ft, index) /\ ~flag(ft, index)

\* radix's walk to lower indices stopped after one node
radixStartOne(ft, index) ==
  IF index >= 1 /\ compressedLetter(ft, index - 1) THEN 1 ELSE 0

RECURSIVE radixStartFrom(_, _, _)
\* radix's walk to lower indices after n nodes: on while the node before
\* is compressed and no flag, whatever its index
radixStartFrom(ft, index, n) ==
  IF compressedLetter(ft, index - n - 1) THEN radixStartFrom(ft, index, n + 1)
  ELSE n

\* radix's walk to lower indices: the compressed nodes right before index
radixStart(ft, index) == radixStartFrom(ft, index, 0)

\* radix's walk to higher indices: the nodes up to the first one that is
\* not compressed
radixEnd(ft, index) ==
  IF compressedLetter(ft, index)
  THEN CHOOSE e \in 1..(Len(ft.data) * W) :
         /\ ~compressed(ft, index + e)
         /\ \A m \in 1..(e - 1) : compressed(ft, index + m)
  ELSE 0

\* radix's result for a run of before nodes, the node and end nodes
radixOf(ft, parent, index, before, end) ==
  [word |-> lettersFrom(ft, index - before, before + 1 + end),
   loc |-> (index - before) - parent.fc,
   branch |-> index + end]

\* FrozenTrieNode.radix without a node cache: the letters of the compressed
\* run the node at index is part of, the run's place among the parent's
\* children and its last node
radix(ft, parent, index) ==
  IF compressedLetter(ft, index)
       \/ (index - parent.fc > 0 /\ compressedLetter(ft, index - 1))
  THEN radixOf(ft, parent, index, radixStart(ft, index), radixEnd(ft, index))
  ELSE [word |-> << letter(ft, index) >>, loc |-> index - parent.fc,
        branch |-> index]

\* the range radix puts its result in the node cache against: lo and hi,
\* the trie indices of the first and the last node of the run
radixPut(ft, index) ==
  [lo |-> index - radixStart(ft, index), hi |-> index + radixEnd(ft, index)]

\* Map.set: the entry of the key is replaced, a new key is added last
mapSet(map, key, val) ==
  IF \E k \in 1..Len(map) : map[k].key = key
  THEN [k \in 1..Len(map) |->
          IF map[k].key = key THEN [key |-> key, value |-> val] ELSE map[k]]
  ELSE Append(map, [key |-> key, value |-> val])

\* lookup's comparison of the run r with the word at i: search lower,
\* search higher, return from lookup, or go on from the run's last node.
\* A unit of the word that is no number is neither above nor below the
\* run's first letter, and equal to none.
lookupCompare(r, w, i) ==
  IF w[1] # NaN /\ r.word[1] > w[1] THEN [kind |-> "lower", next |-> 0, i |-> i]
  ELSE IF w[1] # NaN /\ r.word[1] < w[1]
  THEN [kind |-> "higher", next |-> 0, i |-> i]
  ELSE IF Len(w) < Len(r.word) THEN [kind |-> "return", next |-> 0, i |-> i]
  ELSE IF \E u \in 1..Len(r.word) : w[u] # r.word[u]
  THEN [kind |-> "return", next |-> 0, i |-> i]
  ELSE [kind |-> "next", next |-> r.branch, i |-> i + Len(w)]

RECURSIVE lookupSearch(_, _, _, _, _, _)
RECURSIVE lookupProbe(_, _, _, _, _, _, _)
\* lookup's binary search among the children of node for the run that
\* continues the word at i: the next node, no match (node becomes null), or
\* a return from lookup
lookupSearch(ft, word, node, i, high, low) ==
  IF high - low > 1
  THEN lookupProbe(ft, word, node, i, high, low,
                   radix(ft, node, getChild(node, (high + low) \div 2)))
  ELSE [kind |-> "null", next |-> 0, i |-> i]

\* one probe of the binary search, r the run probed
lookupProbe(ft, word, node, i, high, low, r) ==
  IF lookupCompare(r, slice2(word, i, i + Len(r.word)), i).kind = "lower"
  THEN lookupSearch(ft, word, node, i, r.loc, low)
  ELSE IF lookupCompare(r, slice2(word, i, i + Len(r.word)), i).kind = "higher"
  THEN lookupSearch(ft, word, node, i, high, r.loc + Len(r.word) - 1)
  ELSE lookupCompare(r, slice2(word, i, i + Len(r.word)), i)

\* lookup's capture of the value of a final node when the word is at a
\* label separator
lookupCapture(ft, word, node, i, returnValue) ==
  IF periodEncoded(ft.config)[1] = word[i + 1] /\ final(ft, node.index)
  THEN mapSet(returnValue,
              protoDecode(ft.config, reverse(slice2(word, 0, i))),
              value(ft, node).val)
  ELSE returnValue

RECURSIVE lookupFrom(_, _, _, _, _)
RECURSIVE lookupNext(_, _, _, _)
\* lookup's loop from position i of the word at node, and its end; every
\* step of the loop asks the node's child count
lookupFrom(ft, word, node, i, returnValue) ==
  IF i < Len(word)
  THEN IF IsErr(childCount(node)) THEN [err |-> childCount(node), map |-> << >>]
       ELSE IF lastFlagChild(ft, node) >= childCount(node) - 1
       THEN [err |-> 0, map |-> lookupCapture(ft, word, node, i, returnValue)]
       ELSE lookupNext(ft, word,
                       lookupSearch(ft, word, node, i, childCount(node),
                                    lastFlagChild(ft, node)),
                       lookupCapture(ft, word, node, i, returnValue))
  ELSE IF final(ft, node.index)
  THEN IF IsErr(childCount(node)) THEN [err |-> childCount(node), map |-> << >>]
       ELSE [err |-> 0,
             map |-> mapSet(returnValue, protoDecode(ft.config, reverse(word)),
                            value(ft, node).val)]
  ELSE [err |-> 0, map |-> returnValue]

\* the loop's next step after the search among the children gave s
lookupNext(ft, word, s, returnValue) ==
  IF s.kind = "next"
  THEN lookupFrom(ft, word, FrozenTrieNode(ft, s.next), s.i, returnValue)
  ELSE [err |-> 0, map |-> returnValue]

\* FrozenTrie.lookup of an encoded, reversed host: the entries found, an
\* empty map standing for the false returned when nothing is found
lookup(ft, word) ==
  lookupFrom(ft,
             IF lastIndexOf(word, delimEncoded(ft.config)[1]) > 0
             THEN slice2(word, 0, lastIndexOf(word, delimEncoded(ft.config)[1]))
             ELSE word,
             FrozenTrieNode(ft, 0), 0, << >>)

\* the trie's nodecache: null (not attached), or a FrozenTrieCache whose
\* RangeLfu holds the descriptors stored against their ranges [lo, hi], each
\* with the frequency it was put with; throws tells a RangeLfu whose find
\* and put throw
NoCache == [attached |-> FALSE, throws |-> FALSE, entries |-> {}]
NewCache == [attached |-> TRUE, throws |-> FALSE, entries |-> {}]
ThrowingCache == [attached |-> TRUE, throws |-> TRUE, entries |-> {}]

\* the result of a find that gave nothing: false, null, or a null value
NotFound == [value |-> << >>, cursor |-> << >>]

\* RangeLfu.find(n, cursor): the value stored against a range that holds n
\* and the cursor of that range; the value is null when no range holds n.
\* The cursor handed in is a hint and changes nothing of the result.
rangeFound(d) == [value |-> << d.val >>, cursor |-> << [lo |-> d.lo, hi |-> d.hi] >>]
rangeFind(entries, n, cursor) ==
  IF \E d \in entries : d.lo <= n /\ n <= d.hi
  THEN rangeFound(CHOOSE d \in entries : d.lo <= n /\ n <= d.hi)
  ELSE NotFound

\* a find that gives a value stored against any range
cacheFindAny(nodecache, n, cursor) ==
  IF nodecache.throws \/ nodecache.entries = {} THEN NotFound
  ELSE rangeFound(CHOOSE d \in nodecache.entries : TRUE)

\* FrozenTrieCache.find(n, cursor): what the RangeLfu's find returns, false
\* when it throws
cacheFind(nodecache, n, cursor) ==
  IF nodecache.throws THEN NotFound ELSE rangeFind(nodecache.entries, n, cursor)

\* Math.log2((hi - lo) ** 2) | 0, for hi >= lo
cacheFrequency(lo, hi) ==
  IF hi = lo THEN 0
  ELSE CHOOSE k \in 0..30 :
         2 ^ k <= (hi - lo) * (hi - lo) /\ (k = 30 \/ (hi - lo) * (hi - lo) < 2 ^ (k + 1))

\* RangeLfu.put(lo, hi, val, frequency): the descriptor is stored against
\* [lo, hi], in place of what was stored against that range
rangePut(entries, lo, hi, val, frequency) ==
  {d \in entries : d.lo # lo \/ d.hi # hi}
    \cup {[lo |-> lo, hi |-> hi, val |-> val, frequency |-> frequency]}

\* FrozenTrieCache.put(lo, hi, val): nothing is stored when hi < lo (val is
\* a descriptor, never null), nor when the RangeLfu's put throws
cachePut(nodecache, lo, hi, val) ==
  IF hi < lo \/ nodecache.throws THEN nodecache
  ELSE [nodecache EXCEPT
          !.entries = rangePut(@, lo, hi, val, cacheFrequency(lo, hi))]

\* radix's test that the node at index is part of a compressed run of the
\* children of parent
radixInRun(ft, parent, index) ==
  compressedLetter(ft, index)
    \/ (index - parent.fc > 0 /\ compressedLetter(ft, index - 1))

\* radix once cc is at hand: on a hit the descriptor and the cursor found,
\* on a miss the descriptor reconstructed, put against the run's range, and
\* a null cursor; r is the descriptor, cc the cursor and nodecache the
\* cache after the call
radixWith(ft, parent, index, nodecache, cc) ==
  IF cc.value # << >>
  THEN [r |-> cc.value[1], cc |-> cc.cursor, hit |-> 1, nodecache |-> nodecache]
  ELSE [r |-> radix(ft, parent, index), cc |-> << >>, hit |-> 0,
        nodecache |->
          IF radixInRun(ft, parent, index) /\ nodecache.attached
          THEN cachePut(nodecache, radixPut(ft, index).lo, radixPut(ft, index).hi,
                        radix(ft, parent, index))
          ELSE nodecache]

\* FrozenTrieNode.radix(parent, cachecursor) with the trie's nodecache: cc
\* is what the nodecache's find gives for a node of a run, null without a
\* nodecache
radixCached(ft, parent, index, nodecache, cachecursor) ==
  radixWith(ft, parent, index, nodecache,
            IF radixInRun(ft, parent, index) /\ nodecache.attached
            THEN cacheFind(nodecache, index, cachecursor)
            ELSE NotFound)

\* lookup's locals once it is entered with the caller's array arg (passed
\* keeps it as it was passed): word is arg itself (aliased) or, with a tag
\* delimiter past the first unit, a slice of it; the node is the root, i is
\* 0, the cache cursor is null, nothing is returned yet. rounds counts the
\* probes of the binary searches, steps the runs matched, hits the
\* descriptors the cache gave
lookupEnter(ft, arg, nodecache) ==
  [op |-> "outer", arg |-> arg, passed |-> arg, nodecache |-> nodecache, hits |-> 0,
   cachecursor |-> << >>,
   aliased |-> ~(lastIndexOf(arg, delimEncoded(ft.config)[1]) > 0),
   word |-> IF lastIndexOf(arg, delimEncoded(ft.config)[1]) > 0
            THEN slice2(arg, 0, lastIndexOf(arg, delimEncoded(ft.config)[1]))
            ELSE arg,
   node |-> FrozenTrieNode(ft, 0), i |-> 0, high |-> 0, low |-> 0,
   err |-> 0, map |-> << >>, rounds |-> 0, steps |-> 0]

\* lookup's return, or its throw of err, with the entries in map
lookupReturn(w, err, map) == [w EXCEPT !.op = "done", !.err = err, !.map = map]

\* the end of lookup once the word is iterated over: at a final node
\* word.reverse() reverses the array word names in place, the caller's own
\* when word is aliased to it, and then node.value() is asked
lookupEnd(ft, w) ==
  IF final(ft, w.node.index)
  THEN [lookupReturn(w, IF IsErr(childCount(w.node)) THEN childCount(w.node) ELSE 0,
                     IF IsErr(childCount(w.node)) THEN << >>
                     ELSE mapSet(w.map, protoDecode(ft.config, reverse(w.word)),
                                 value(ft, w.node).val))
          EXCEPT !.word = reverse(w.word),
                 !.arg = IF w.aliased THEN reverse(w.word) ELSE w.arg]
  ELSE lookupReturn(w, 0, w.map)

\* one round of lookup's outer loop up to its binary search: the end of the
\* word, the capture at a label separator, the return when no child is
\* left to search, or the search interval (lastFlagChild, childCount)
lookupRound(ft, w) ==
  IF ~(w.i < Len(w.word)) THEN lookupEnd(ft, w)
  ELSE IF IsErr(childCount(w.node)) THEN lookupReturn(w, childCount(w.node), << >>)
  ELSE IF lastFlagChild(ft, w.node) >= childCount(w.node) - 1
  THEN lookupReturn(w, 0, lookupCapture(ft, w.word, w.node, w.i, w.map))
  ELSE [w EXCEPT !.op = "inner",
                 !.map = lookupCapture(ft, w.word, w.node, w.i, w.map),
                 !.high = childCount(w.node),
                 !.low = lastFlagChild(ft, w.node)]

\* the binary search goes on while high - low > 1; when it ends unmatched
\* next is null, node becomes null and the outer loop returns
lookupNarrowed(w) ==
  IF w.high - w.low > 1 THEN w ELSE lookupReturn(w, 0, w.map)

\* a round of the binary search that narrows to the lower half and leaves
\* high where it was
lookupHalveKeepsHigh(ft, w, r, c) ==
  IF c.kind = "lower" THEN lookupNarrowed([w EXCEPT !.rounds = @ + 1])
  ELSE IF c.kind = "higher"
  THEN lookupNarrowed([w EXCEPT !.low = r.loc + Len(r.word) - 1, !.rounds = @ + 1])
  ELSE IF c.kind = "return" THEN lookupReturn([w EXCEPT !.rounds = @ + 1], 0, w.map)
  ELSE [w EXCEPT !.op = "outer", !.node = FrozenTrieNode(ft, c.next), !.i = c.i,
                 !.rounds = @ + 1, !.steps = @ + 1]

\* one round of the binary search once the run r at the probe is compared
\* (c) with the word: high = r.loc, low = r.loc + comp.length - 1, a return
\* on a mismatch, or node = r.branch and i += w.length
lookupHalve(ft, w, r, c) ==
  IF c.kind = "lower"
  THEN lookupNarrowed([w EXCEPT !.high = r.loc, !.rounds = @ + 1])
  ELSE IF c.kind = "higher"
  THEN lookupNarrowed([w EXCEPT !.low = r.loc + Len(r.word) - 1, !.rounds = @ + 1])
  ELSE IF c.kind = "return" THEN lookupReturn([w EXCEPT !.rounds = @ + 1], 0, w.map)
  ELSE [w EXCEPT !.op = "outer", !.node = FrozenTrieNode(ft, c.next), !.i = c.i,
                 !.rounds = @ + 1, !.steps = @ + 1]

\* the comparison of the run r with the word of the lookup w at w.i
lookupCompared(w, r) ==
  lookupCompare(r, slice2(w.word, w.i, w.i + Len(r.word)), w.i)

\* the probe of the lookup w: the child in the middle of (low, high)
lookupProbeIndex(w) == getChild(w.node, (w.high + w.low) \div 2)

\* the radix of the child at the probe of the lookup w
lookupProbed(ft, w) ==
  radixCached(ft, w.node, lookupProbeIndex(w), w.nodecache, w.cachecursor)

\* the lookup w after the radix p of its probe: the cache as radix left it,
\* cachecursor = cc != null ? cc : cachecursor
lookupTook(w, p) ==
  [w EXCEPT !.nodecache = p.nodecache, !.hits = @ + p.hit,
            !.cachecursor = IF p.cc # << >> THEN p.cc ELSE @]

\* one round of the binary search, p the radix of the child at the probe
lookupBisected(ft, w, p) ==
  lookupHalve(ft, lookupTook(w, p), p.r, lookupCompared(w, p.r))

\* one round of lookup's binary search
lookupBisect(ft, w) == lookupBisected(ft, w, lookupProbed(ft, w))

\* FrozenTrie.transform (and Trie.transform): the reversed code units
transform(cfg, str) == reverse(protoEncode(cfg, str))

----------------------------------------------------------------------------
(* State.                                                                  *)

VARIABLES
  bwState,    \* the BitWriter of the bit-buffer specification: bits16, top
  bwFields,   \* the fields written to it: value, width, offset
  bsQuery,    \* the last read of the written data: op, p, n, res
  tgTags,     \* the ordinals given to tagsToFlags, in the order given
  tgFlags,    \* tagsToFlags(tgTags) as 16-bit words
  tgDecoded,  \* flagsToTags(tgFlags)
  tgCut,      \* flagsToTags of tgFlags cut or padded by a word: flags, res, threw
  rkCounts,   \* runs of nodes of a stream in level order: child count, length
  rkBuilt,    \* whether the stream has been encoded and its directories built
  rkData,     \* the encoded stream as 16-bit units
  rkSel,      \* createRankDirectory of it under the select-as-rank layout
  rkPop,      \* createRankDirectory of it under the popcount layout
  rkQuery,    \* the last select(which, y) of both directories: op, y, sel, pop
  trCfg,      \* the configuration of the trie: useCodec6, optflags, selectsearch
  trTrie,     \* the builder: node table, cache, nodeCount, previousWord
  trWords,    \* the (host, ordinal) pairs inserted, in the order inserted
  trEncoded,  \* Trie.encode's result once taken: level length, letter start, data
  trFrozen,   \* createRankDirectory's error, build's FrozenTrie, the readers'
  trLookup    \* the last FrozenTrie.lookup: host, error thrown, entries returned

varsBits == << bwState, bwFields, bsQuery >>
varsTags == << tgTags, tgFlags, tgDecoded, tgCut >>
varsRank == << rkCounts, rkBuilt, rkData, rkSel, rkPop, rkQuery >>

varsTrie == << trCfg, trTrie, trWords, trEncoded, trFrozen, trLookup >>

vars == << bwState, bwFields, bsQuery, tgTags, tgFlags, tgDecoded, tgCut,
           rkCounts, rkBuilt, rkData, rkSel, rkPop, rkQuery,
           trCfg, trTrie, trWords, trEncoded, trFrozen, trLookup >>

NoQuery == [op |-> "none", p |-> 0, n |-> 0, res |-> 0]

BitsIdle ==
  /\ bwState = NewBitWriter
  /\ bwFields = << >>
  /\ bsQuery = NoQuery

NoCut == [op |-> "none", flags |-> << >>, res |-> << >>, threw |-> FALSE]

TagsIdle ==
  /\ tgTags = << >>
  /\ tgFlags = << 0 >>
  /\ tgDecoded = << >>
  /\ tgCut = NoCut

RankIdleDirectory ==
  createRankDirectory(<< >>, [nodecount |-> 0, selectsearch |-> TRUE]).rd

NoSelect == [op |-> "none", y |-> 0, sel |-> 0, pop |-> 0]

RankIdle ==
  /\ rkCounts = << >>
  /\ rkBuilt = FALSE
  /\ rkData = << >>
  /\ rkSel = createRankDirectory(<< >>, [nodecount |-> 0, selectsearch |-> TRUE])
  /\ rkPop = createRankDirectory(<< >>, [nodecount |-> 0, selectsearch |-> FALSE])
  /\ rkQuery = NoSelect

\* config.js: the defaults of the configuration
config == [selectsearch |-> TRUE, useCodec6 |-> TRUE, optflags |-> TRUE]

NotEncoded == [built |-> FALSE, level |-> << >>, levlen |-> 0, nodecount |-> 0,
               letterStart |-> 0, data |-> << >>]
NotFrozen == [err |-> 0, frozen |-> FALSE,
              ft |-> FrozenTrie(<< >>, RankIdleDirectory, 0, config),
              built |-> FrozenTrie(<< >>, RankIdleDirectory, NaN, config),
              mounted |-> createTrie(<< >>, << >>, [nodecount |-> 0] @@ config)]
NoLookup == [op |-> "none", host |-> << >>, err |-> 0, map |-> << >>]

\* the builder as constructed, nothing inserted, encoded or looked up
TrieFresh ==
  /\ trTrie = NewTrie
  /\ trWords = << >>
  /\ trEncoded = NotEncoded
  /\ trFrozen = NotFrozen
  /\ trLookup = NoLookup

TrieIdle == trCfg = config /\ TrieFresh

----------------------------------------------------------------------------
(* The bit-buffer specification: fields are written with BitWriter.write   *)
(* and the written data is read back with BitString.get, count and pos0.   *)

FieldWidths == {3, 16, 31}
\* the n low bits of a value below 2^31
LowBits(x, n) == IF n >= 31 THEN x ELSE x % (2 ^ n)
FieldValues(n) ==
  {0, LowBits(2147483647, n), LowBits(1431655765, n)}
QueryStarts == {0, 3, 16, 31}
QueryCounts == {1, 2, 16}

InitBits == BitsIdle /\ TagsIdle /\ RankIdle /\ TrieIdle

BWWrite(v, n) ==
  /\ Len(bwFields) < MaxFields
  /\ bwState' = write(bwState, v, n)
  /\ bwFields' = Append(bwFields, [v |-> v, n |-> n, off |-> bwState.top])
  /\ bsQuery' = NoQuery
  /\ UNCHANGED << varsTags, varsRank, varsTrie >>

BSGet(k) ==
  /\ bsQuery' = [op |-> "get", p |-> bwFields[k].off, n |-> bwFields[k].n,
                 res |-> get(getData(bwState), bwFields[k].off, bwFields[k].n)]
  /\ UNCHANGED << bwState, bwFields >>
  /\ UNCHANGED << varsTags, varsRank, varsTrie >>

BSCount(p, n) ==
  /\ p + n <= bwState.top
  /\ bsQuery' = [op |-> "count", p |-> p, n |-> n,
                 res |-> count(getData(bwState), p, n)]
  /\ UNCHANGED << bwState, bwFields >>
  /\ UNCHANGED << varsTags, varsRank, varsTrie >>

BSPos0(p, n) ==
  /\ p <= bwState.top
  /\ bsQuery' = [op |-> "pos0", p |-> p, n |-> n,
                 res |-> pos0(getData(bwState), p, n)]
  /\ UNCHANGED << bwState, bwFields >>
  /\ UNCHANGED << varsTags, varsRank, varsTrie >>

NextBits ==
  \/ \E n \in FieldWidths : \E v \in FieldValues(n) : BWWrite(v, n)
  \/ \E k \in 1..Len(bwFields) : BSGet(k)

SpecBits == InitBits /\ [][NextBits]_vars

(* The scan specification: the written data is scanned with count, pos0.   *)

NextScan ==
  \/ \E n \in FieldWidths : \E v \in FieldValues(n) : BWWrite(v, n)
  \/ \E p \in QueryStarts : \E n \in QueryCounts \cup {0} : BSCount(p, n)
  \/ \E p \in QueryStarts : \E n \in QueryCounts : BSPos0(p, n)

SpecScan == InitBits /\ [][NextScan]_vars

\* the bit at position k of the written data, read the plain way
BitOf(bytes, k) == (ByteAt(bytes, k \div W) \div (2 ^ (W - 1 - (k % W)))) % 2

\* positions of the zero bits of the data at or after p, inside the stream
ZerosFrom(bytes, p) == {k \in p..(BitLength(bytes) - 1) : BitOf(bytes, k) = 0}

\* the n-th zero at or after p by a linear scan (only when it exists)
NaiveNthZero(bytes, p, n) ==
  CHOOSE z \in ZerosFrom(bytes, p) :
    Cardinality({k \in ZerosFrom(bytes, p) : k <= z}) = n

\* the one-bits of positions p .. p+n-1 by a linear scan
NaiveCount(bytes, p, n) ==
  Cardinality({k \in p..(p + n - 1) : BitOf(bytes, k) = 1})

----------------------------------------------------------------------------
(* Claims about the bit buffer: C6 under SpecBits, C7 and C8 under         *)
(* SpecScan.                                                               *)

\* C6: a field written with BitWriter.write(v, n), 1 <= n <= 31 and
\* 0 <= v < 2^n, is read back by BitString.get at the sum of the widths
\* written before it: get(offset_k, n_k) = v_k for every field k.
C6_GetReadsBackWrittenField ==
  \A k \in 1..Len(bwFields) :
    (bsQuery.op = "get" /\ bsQuery.p = bwFields[k].off)
      => bsQuery.res = bwFields[k].v

\* a field with one-bits that spans a 16-bit unit boundary has been read back
C6_Witness ==
  /\ bsQuery.op = "get"
  /\ (bsQuery.p % W) + bsQuery.n > W
  /\ bsQuery.res > 255
  /\ Len(bwFields) = MaxFields

\* C7: whenever the n-th zero bit at or after i lies inside the stream,
\* pos0(i, n) returns its index, the one a linear scan finds.
C7_Pos0FindsNthZero ==
  (/\ bsQuery.op = "pos0"
   /\ bsQuery.n >= 1
   /\ Cardinality(ZerosFrom(getData(bwState), bsQuery.p)) >= bsQuery.n)
    => bsQuery.res = NaiveNthZero(getData(bwState), bsQuery.p, bsQuery.n)

\* C25: pos0(i, n) with n >= 1 raises an error whenever the stream holds
\* fewer than n zero bits at positions i .. length - 1; it never returns an
\* index at or beyond the stream length and never counts bits past the end
\* as zeros.
C25_Pos0RaisesPastEnd ==
  (/\ bsQuery.op = "pos0"
   /\ bsQuery.n >= 1
   /\ Cardinality(ZerosFrom(getData(bwState), bsQuery.p)) < bsQuery.n)
    => IsErr(bsQuery.res)

\* C8: count(p, n) is the number of one-bits at positions p .. p+n-1,
\* whatever the 16-bit units hold.
C8_CountIsPopcount ==
  bsQuery.op = "count"
    => bsQuery.res = NaiveCount(getData(bwState), bsQuery.p, bsQuery.n)

----------------------------------------------------------------------------
(* The tag specification: ordinals are folded into a bitmap one at a time  *)
(* with tagsToFlags and the bitmap is decoded with flagsToTags.            *)

TagPool == {0, 1, 15, 16, 17, 128, 255}

InitTags == BitsIdle /\ TagsIdle /\ RankIdle /\ TrieIdle

\* tagsToFlags of the list with one more ordinal, then flagsToTags of it
TagsAdd(t) ==
  /\ Len(tgTags) < MaxTags
  /\ tgTags' = Append(tgTags, t)
  /\ tgFlags' = tagsToFlags(Append(tgTags, t))
  /\ tgDecoded' = flagsToTags(tagsToFlags(Append(tgTags, t)))
  /\ tgCut' = NoCut
  /\ UNCHANGED << varsBits, varsRank, varsTrie >>

\* the words of a bitmap with the last group word dropped, or with one more
FlagsCut(flags, d) ==
  IF d < 0 THEN SubSeq(flags, 1, Len(flags) - 1) ELSE Append(flags, 32768)

\* flagsToTags of words whose count disagrees with the header: the call
\* returns what the function returns, and the function has no throw
TagsDecodeCut(d) ==
  /\ Len(tgTags) <= MaxCutTags
  /\ Len(tgFlags) + d >= 1
  /\ tgCut' = [op |-> "flagsToTags", flags |-> FlagsCut(tgFlags, d),
               res |-> flagsToTags(FlagsCut(tgFlags, d)), threw |-> FALSE]
  /\ UNCHANGED << tgTags, tgFlags, tgDecoded >>
  /\ UNCHANGED << varsBits, varsRank, varsTrie >>

NextTags ==
  \/ \E t \in TagPool : TagsAdd(t)
  \/ \E d \in {0 - 1, 1} : TagsDecodeCut(d)

SpecTags == InitTags /\ [][NextTags]_vars

SeqRange(sq) == {sq[k] : k \in 1..Len(sq)}

IsAscending(sq) == \A k \in 1..(Len(sq) - 1) : sq[k] < sq[k + 1]

\* C5: flagsToTags of the words tagsToFlags gives for a set S of ordinals
\* in [0, 256) is exactly the members of S, ascending, each once.
C5_TagBitmapRoundTrip ==
  /\ SeqRange(tgDecoded) = SeqRange(tgTags)
  /\ IsAscending(tgDecoded)

\* distinct ordinals of two groups or more, given out of order, have been round-tripped
C5_Witness ==
  /\ Len(tgTags) = MaxTags
  /\ Cardinality(SeqRange(tgTags)) = MaxTags
  /\ tgTags[1] > tgTags[2]
  /\ tgTags[1] \div 16 = tgTags[2] \div 16
  /\ Len(tgFlags) >= 3
  /\ Len(tgDecoded) = MaxTags

\* the ordinals of scenario S4
TagsS4 == << 0, 15, 16, 255 >>

\* C12 as the scenario states it: tagsToFlags([0, 15, 16, 255]) is three
\* words, the header 0x8001 and the words of groups 0 and 15, and
\* flagsToTags of them is [0, 15, 16, 255].
C12_ScenarioS4AsStated ==
  tgTags = TagsS4 =>
    /\ Len(tgFlags) = 3
    /\ tgFlags[1] = 32769
    /\ tgDecoded = TagsS4

\* C12, amended: tagsToFlags([0, 15, 16, 255]) is four words, the header
\* 0xC001 and the words of groups 0 (0x8001), 1 (0x8000) and 15 (0x0001),
\* ordinal 16 being the first of group 1; flagsToTags of them is
\* [0, 15, 16, 255].
C12_ScenarioS4 ==
  tgTags = TagsS4 =>
    /\ tgFlags = << 49153, 32769, 32768, 1 >>
    /\ tgDecoded = TagsS4

\* the four ordinals of the scenario have been folded in and decoded
C12_Witness ==
  /\ tgTags = TagsS4
  /\ Len(tgFlags) = 4
  /\ Len(tgDecoded) = 4

\* the group words after the header are not as many as the header's one-bits
HeaderMismatch(flags) ==
  Len(flags) >= 1 /\ Len(flags) - 1 # countSetBits(flags[1])

\* C16: flagsToTags aborts with a decode error whenever the number of group
\* words after the header differs from the number of bits set in the header;
\* it never returns an ordinal list for such an input.
C16_MismatchAborts ==
  (tgCut.op = "flagsToTags" /\ HeaderMismatch(tgCut.flags)) => tgCut.threw

----------------------------------------------------------------------------
(* The rank specification: a child-count stream grows in level order by a  *)
(* node or by a node under a long label, is encoded, gets a directory of   *)
(* each layout, and select(0, y) is asked of both.                         *)

RankFanouts == {0, 1, 2}
\* letters of a long label: level order makes each an entry of its own, all
\* of them children of the label's parent, and only the last has children
LabelLen == 16
\* bits of a letter entry after the child counts: none, or codec6's 6 + 2
LetterWidths == {0, 8}

RECURSIVE RkSizes(_)
\* the child count of every node
RkSizes(runs) ==
  IF runs = << >> THEN << >>
  ELSE [k \in 1..Head(runs).rep |-> Head(runs).size] \o RkSizes(Tail(runs))

RECURSIVE SumSeq(_)
SumSeq(sq) == IF sq = << >> THEN 0 ELSE Head(sq) + SumSeq(Tail(sq))

\* nodes announced as children (the root by the super-root) and not yet added
RkPending == 1 + SumSeq(RkSizes(rkCounts)) - Len(RkSizes(rkCounts))

RkRuns(rep) == Cardinality({k \in 1..Len(rkCounts) : rkCounts[k].rep = rep})
\* the long labels and the single nodes added so far
RkLabels == RkRuns(LabelLen - 1)
RkNodes == RkRuns(1) - RkLabels

InitRank == BitsIdle /\ TagsIdle /\ RankIdle /\ TrieIdle

\* the next node in level order has c children
RkAddNode(c) ==
  /\ ~rkBuilt
  /\ RkPending > 0
  /\ RkNodes < MaxRankNodes
  /\ rkCounts' = Append(rkCounts, [size |-> c, rep |-> 1])
  /\ UNCHANGED << rkBuilt, rkData, rkSel, rkPop, rkQuery >>
  /\ UNCHANGED << varsBits, varsTags, varsTrie >>

\* the next node in level order, the only one announced, has one child
\* under a label of LabelLen letters: it has LabelLen child entries, and the
\* entries of the letters before the last, which come next, have none
RkAddLabel ==
  /\ ~rkBuilt
  /\ RkPending = 1
  /\ RkLabels < MaxRankLabels
  /\ rkCounts' = rkCounts \o << [size |-> LabelLen, rep |-> 1],
                                [size |-> 0, rep |-> LabelLen - 1] >>
  /\ UNCHANGED << rkBuilt, rkData, rkSel, rkPop, rkQuery >>
  /\ UNCHANGED << varsBits, varsTags, varsTrie >>

\* encode the finished tree with letter entries of lb bits and build the
\* directory of each layout over it
RkBuild(lb) ==
  /\ ~rkBuilt
  /\ RkPending = 0
  /\ rkBuilt' = TRUE
  /\ rkData' = getData(encodeStream(RkSizes(rkCounts),
                  IF lb = 0 THEN << >> ELSE [k \in 1..Len(RkSizes(rkCounts)) |-> 1], lb))
  /\ rkSel' = createRankDirectory(rkData',
                 [nodecount |-> Len(RkSizes(rkCounts)), selectsearch |-> TRUE])
  /\ rkPop' = createRankDirectory(rkData',
                 [nodecount |-> Len(RkSizes(rkCounts)), selectsearch |-> FALSE])
  /\ UNCHANGED << rkCounts, rkQuery >>
  /\ UNCHANGED << varsBits, varsTags, varsTrie >>

\* select(0, y) of both directories; a directory createRankDirectory threw
\* on does not exist and the query ends in that error
RkSelect(y) ==
  /\ rkBuilt
  /\ rkQuery' = [op |-> "select", y |-> y,
                 sel |-> IF rkSel.err # 0 THEN rkSel.err ELSE select(rkSel.rd, 0, y),
                 pop |-> IF rkPop.err # 0 THEN rkPop.err ELSE select(rkPop.rd, 0, y)]
  /\ UNCHANGED << rkCounts, rkBuilt, rkData, rkSel, rkPop >>
  /\ UNCHANGED << varsBits, varsTags, varsTrie >>

\* select(1, y) of both directories
RkSelectOne(y) ==
  /\ rkBuilt
  /\ rkQuery' = [op |-> "select1", y |-> y,
                 sel |-> IF rkSel.err # 0 THEN rkSel.err ELSE select(rkSel.rd, 1, y),
                 pop |-> IF rkPop.err # 0 THEN rkPop.err ELSE select(rkPop.rd, 1, y)]
  /\ UNCHANGED << rkCounts, rkBuilt, rkData, rkSel, rkPop >>
  /\ UNCHANGED << varsBits, varsTags, varsTrie >>

\* the zero bits of the child-count stream: one per node and the super-root's
RkZeroCount == Len(RkSizes(rkCounts)) + 1

\* the y asked: the first, the ones around a directory entry, the last
RkQueries == ({0, 1, 2, 31, 32, 33} \cup {RkZeroCount - 1, RkZeroCount}) \cap (0..RkZeroCount)

NextRank ==
  \/ \E c \in RankFanouts : RkAddNode(c)
  \/ RkAddLabel
  \/ \E lb \in LetterWidths : RkBuild(lb)
  \/ \E y \in RkQueries : RkSelect(y)
  \/ \E y \in RkQueries : RkSelectOne(y)

SpecRank == InitRank /\ [][NextRank]_vars

----------------------------------------------------------------------------
(* Claims about the rank directory, under SpecRank.                        *)

\* C9: under the select-as-rank layout, for every y from 1 to the number of
\* zero bits of the child-count stream, select(0, y) is the position of the
\* y-th zero bit of the stream.
C9_SelectFindsYthZero ==
  (rkQuery.op = "select" /\ rkQuery.y >= 1 /\ rkQuery.y <= RkZeroCount)
    => rkQuery.sel = NaiveNthZero(rkData, 0, rkQuery.y)

\* C10: the popcount layout and the select-as-rank layout built over the
\* same stream give the same select(0, y) for every y in [0, zero count).
C10_LayoutsAgree ==
  (rkQuery.op = "select" /\ rkQuery.y >= 0 /\ rkQuery.y < RkZeroCount)
    => rkQuery.sel = rkQuery.pop

\* C18: under the select-as-rank layout select(1, y) is unsupported and
\* returns an error for every y; it never returns a bit position.
C18_SelectOneIsAnError ==
  (rkQuery.op = "select1" /\ rkSel.err = 0) => IsErr(rkQuery.sel)

----------------------------------------------------------------------------
(* The trie specification: encoded words are inserted in the order the     *)
(* build sorts them in, the trie is encoded and frozen over its rank       *)
(* directory, and hosts are looked up in the frozen trie.                  *)

MaxWords == 6

\* the texts "a", "b.a", "c.a", "ba", "ca", "b", "d", "d.a", "aa"
HostA == << 97 >>
HostBdotA == << 98, 46, 97 >>
HostCdotA == << 99, 46, 97 >>
HostBA == << 98, 97 >>
HostCA == << 99, 97 >>
HostB == << 98 >>
HostD == << 100 >>
HostDdotA == << 100, 46, 97 >>
HostAA == << 97, 97 >>

\* the (host, blocklist ordinal) pairs the hosts files hold
WordPool ==
  {[host |-> HostA, ord |-> 0], [host |-> HostA, ord |-> 1],
   [host |-> HostA, ord |-> 16], [host |-> HostA, ord |-> 255],
   [host |-> HostBdotA, ord |-> 7], [host |-> HostCdotA, ord |-> 7],
   [host |-> HostBA, ord |-> 3], [host |-> HostCA, ord |-> 200],
   [host |-> HostB, ord |-> 1]}

\* the hosts looked up: the hosts of the pool and hosts never inserted
LookupHosts ==
  {HostA, HostBdotA, HostCdotA, HostBA, HostCA, HostB, HostD, HostDdotA, HostAA}

RECURSIVE toDigits(_)
\* the decimal text of an ordinal: the name of its hosts file
toDigits(n) ==
  IF n < 10 THEN << 48 + n >> ELSE toDigits(n \div 10) \o << 48 + (n % 10) >>

\* processBlocklist's word of a host of the file of an ordinal: the tag
\* reversed, then the host, transformed
hostWord(cfg, host, ord) ==
  transform(cfg, reverse(<< delim >> \o toDigits(ord)) \o host)

\* the configurations the trie is built under
Configs == {[config EXCEPT !.optflags = o] : o \in BOOLEAN}

Init ==
  /\ BitsIdle /\ TagsIdle /\ RankIdle
  /\ trCfg \in Configs
  /\ TrieFresh

\* build's hosts.forEach(insert) over the sorted words: the next word is
\* later in lex order than the last one inserted
Insert(e) ==
  /\ ~trEncoded.built
  /\ Len(trWords) < MaxWords
  /\ Len(trWords) > 0 =>
       lex(hostWord(trCfg, trWords[Len(trWords)].host, trWords[Len(trWords)].ord),
           hostWord(trCfg, e.host, e.ord)) < 0
  /\ trTrie' = insert(trTrie, trCfg, hostWord(trCfg, e.host, e.ord))
  /\ trWords' = Append(trWords, e)
  /\ UNCHANGED << trCfg, trEncoded, trFrozen, trLookup >>
  /\ UNCHANGED << varsBits, varsTags, varsRank >>

\* build once the words are inserted: encode, which leaves the builder
\* without its root and its cache, createRankDirectory, and build's own
\* new FrozenTrie(td, rddir, basicconfig): the configuration stands where
\* the node count is read, so letterStart is NaN, and no configuration is
\* given, so the defaults hold. What build's lookups of its test domains
\* in that trie return is logged only.
Encode ==
  /\ ~trEncoded.built
  /\ trEncoded' = [built |-> TRUE] @@ encode(trTrie, trCfg)
  /\ trTrie' = [trTrie EXCEPT !.root = 0, !.cache = << >>]
  /\ trFrozen' =
       LET rd == createRankDirectory(trEncoded'.data,
                   [nodecount |-> trEncoded'.nodecount,
                    selectsearch |-> trCfg.selectsearch])
       IN [trFrozen EXCEPT !.err = rd.err,
             !.built = FrozenTrie(trEncoded'.data, rd.rd, NaN, config)]
  /\ UNCHANGED << trCfg, trWords, trLookup >>
  /\ UNCHANGED << varsBits, varsTags, varsRank >>

\* the read side over what build made:
\*   ft       new FrozenTrie(td, rddir, nodeCount, config), the constructor
\*            given its four parameters: the directory createRankDirectory
\*            returned, the node count and the configuration of the build;
\*   mounted  createTrie of the two blobs build saves, with that node
\*            count and configuration.
Freeze ==
  /\ trEncoded.built
  /\ ~trFrozen.frozen
  /\ trFrozen' =
       [trFrozen EXCEPT !.frozen = TRUE,
          !.ft = FrozenTrie(trEncoded.data, trFrozen.built.directory,
                            trEncoded.nodecount, trCfg),
          !.mounted = createTrie(trEncoded.data,
                        trFrozen.built.directory.directory,
                        [nodecount |-> trEncoded.nodecount] @@ trCfg)]
  /\ UNCHANGED << trCfg, trTrie, trWords, trEncoded, trLookup >>
  /\ UNCHANGED << varsBits, varsTags, varsRank >>

\* lookup of a host in the frozen trie; with no rank directory (its
\* creation threw) there is no frozen trie to look the host up in. A lookup
\* leaves the frozen trie as it is, so one lookup a behaviour reaches every
\* lookup of every trie
Lookup(h) ==
  /\ trFrozen.frozen
  /\ trLookup = NoLookup
  /\ trLookup' =
       IF trFrozen.err # 0
       THEN [op |-> "lookup", host |-> h, err |-> trFrozen.err, map |-> << >>]
       ELSE [op |-> "lookup", host |-> h] @@ lookup(trFrozen.ft, transform(trCfg, h))
  /\ UNCHANGED << trCfg, trTrie, trWords, trEncoded, trFrozen >>
  /\ UNCHANGED << varsBits, varsTags, varsRank >>

Next ==
  \/ \E e \in WordPool : Insert(e)
  \/ Encode
  \/ Freeze
  \/ \E h \in LookupHosts : Lookup(h)

Spec == Init /\ [][Next]_vars

----------------------------------------------------------------------------
(* The contract of the trie: what a lookup in the frozen trie gives for    *)
(* the words inserted, and the builder's node count.                       *)

RECURSIVE Descendants(_, _, _)
\* the nodes reached from the frontier over children lists
Descendants(t, frontier, seen) ==
  IF frontier \subseteq seen THEN seen
  ELSE Descendants(t,
         UNION {SeqRange(t.nodes[id].children) : id \in frontier \ seen},
         seen \cup frontier)

\* the nodes of the trie: those reached from the root, none once encode
\* has taken the root away
TrieNodes(t) == IF t.root = 0 THEN {} ELSE Descendants(t, {t.root}, {})

\* the hosts inserted and the ordinals each was inserted with
Keys == {trWords[k].host : k \in 1..Len(trWords)}
OrdsOf(h) == {trWords[k].ord : k \in {j \in 1..Len(trWords) : trWords[j].host = h}}

\* s is a parent domain of h: h ends in a label separator followed by s
IsParentDomain(s, h) ==
  /\ Len(s) < Len(h) - 1
  /\ h[Len(h) - Len(s)] = period
  /\ \A k \in 1..Len(s) : h[Len(h) - Len(s) + k] = s[k]

\* the map has an entry of the key whose value decodes to the ordinals
MapHas(map, key, ords) ==
  \E k \in 1..Len(map) :
    /\ map[k].key = key
    /\ SeqRange(flagsToTags(map[k].value)) = ords

\* a lookup has been made
Looked == trLookup.op = "lookup"

\* C1: for every host inserted (in lex order, ordinals in [0, 256)) into a
\* trie then encoded and frozen, lookup of the host returns a map with an
\* entry of the host whose value decodes (flagsToTags) to exactly the
\* ordinals the host was inserted with.
C1_LookupFindsInsertedHost ==
  Looked /\ trLookup.host \in Keys =>
    /\ trLookup.err = 0
    /\ MapHas(trLookup.map, trLookup.host, OrdsOf(trLookup.host))

\* C2: for every inserted host and every parent domain of it that is itself
\* a key of the trie, the result of looking the host up has an entry of the
\* parent domain whose value is exactly the ordinals stored for it.
C2_LookupCollectsParentDomains ==
  Looked /\ trLookup.host \in Keys =>
    \A s \in Keys :
      IsParentDomain(s, trLookup.host) =>
        /\ trLookup.err = 0
        /\ MapHas(trLookup.map, s, OrdsOf(s))

\* C3: for every host that was not inserted and none of whose parent
\* domains is a key of the trie, lookup returns an empty result: nothing
\* thrown, no entries.
C3_LookupOfAbsentHostIsEmpty ==
  (/\ Looked
   /\ trLookup.host \notin Keys
   /\ \A s \in Keys : ~IsParentDomain(s, trLookup.host)) =>
    /\ trLookup.err = 0
    /\ trLookup.map = << >>

\* C17: in a frozen trie whose rank directory was built, a lookup of a host
\* that is not a key raises no error on any of its paths (child location
\* through select and pos0, radix reconstruction, binary search) and
\* returns no entry of the host.
C17_AbsentLookupRaisesNothing ==
  (Looked /\ trFrozen.err = 0 /\ trLookup.host \notin Keys) =>
    /\ trLookup.err = 0
    /\ \A k \in 1..Len(trLookup.map) : trLookup.map[k].key # trLookup.host

\* the nodes of the frozen trie, by index
FrozenNodes == 0..(trEncoded.nodecount - 1)

\* C19: a trie opened with createTrie(td, rd, cfg) mounts a rank directory
\* configured with cfg.nodecount and cfg.selectsearch: firstChild and
\* childCount of every node, and the result of every lookup, equal those of
\* the FrozenTrie over the directory createRankDirectory returned for the
\* same blobs and config.
C19_MountedTrieAgrees ==
  (trFrozen.frozen /\ trFrozen.err = 0) =>
    /\ \A i \in FrozenNodes :
         /\ firstChild(trFrozen.mounted, i) = firstChild(trFrozen.ft, i)
         /\ childCount(FrozenTrieNode(trFrozen.mounted, i))
              = childCount(FrozenTrieNode(trFrozen.ft, i))
    /\ Looked =>
         lookup(trFrozen.mounted, transform(trCfg, trLookup.host))
           = [err |-> trLookup.err, map |-> trLookup.map]

\* the level-order entry encode wrote at an index of the frozen trie
LevelEntry(i) == trEncoded.level[i + 1]

\* C21: in the letter stream encode writes, an entry has both header bits
\* set (compressed and final) if and only if it is a flag unit carrying a
\* code unit of its parent's tag data; every other entry, the root at index
\* 0 included, has at most one of the two header bits set.
C21_BothHeaderBitsIffFlagUnit ==
  trFrozen.frozen =>
    \A i \in FrozenNodes :
      (compressed(trFrozen.ft, i) /\ final(trFrozen.ft, i))
        <=> (LevelEntry(i).flag = TRUE)

\* the letter a level-order entry shows where it is pushed: an auxiliary
\* entry's own, a node's first
PushedLetter(entry) ==
  IF entry.aux THEN entry.letter ELSE trTrie.nodes[entry.id].letter[1]

\* the entries of a pushed list that start a letter child: the ones past
\* the flag units that do not follow a compressed entry
RunStarts(p) ==
  {k \in 1..Len(p) : p[k].flag # TRUE /\ (k = 1 \/ ~p[k - 1].compressed)}

\* C22: for every node of a trie built from lex-ordered inserts, the
\* children level order emits are all the flag units of the node first, then
\* its letter children (each a run of compressed units ended by the real
\* child) with strictly ascending first letters.
C22_FlagUnitsThenAscendingLetters ==
  \A id \in TrieNodes(trTrie) :
    trTrie.nodes[id].flag # TRUE =>
      LET p == levelPushed(trTrie, trCfg, trTrie.nodes[id]) IN
        /\ \A j, k \in 1..Len(p) : (j < k /\ p[k].flag = TRUE) => p[j].flag = TRUE
        /\ \A k \in 1..Len(p) :
             p[k].compressed => (k < Len(p) /\ p[k + 1].flag # TRUE)
        /\ \A j, k \in RunStarts(p) :
             j < k => PushedLetter(p[j]) < PushedLetter(p[k])

\* a node has flag units of three code units or more, then three letter
\* children, one of them after a compressed entry
C22_Witness ==
  \E id \in TrieNodes(trTrie) :
    /\ trTrie.nodes[id].flag # TRUE
    /\ LET p == levelPushed(trTrie, trCfg, trTrie.nodes[id]) IN
         /\ Cardinality({k \in 1..Len(p) : p[k].flag = TRUE}) >= 3
         /\ Cardinality(RunStarts(p)) >= 3
         /\ \E k \in 1..Len(p) : p[k].compressed

\* a level-order entry that is a compressed unit of a letter child
IsRunUnit(entry) == entry.compressed /\ entry.flag # TRUE

\* the first and the last index of the compressed run the entry at index c
\* of a level order belongs to, as the builder emitted it
RunLo(level, c) ==
  CHOOSE l \in 0..c :
    /\ \A k \in l..(c - 1) : IsRunUnit(level[k + 1])
    /\ (l = 0 \/ ~IsRunUnit(level[l]))
RunHi(level, c) ==
  CHOOSE h \in c..(Len(level) - 1) :
    /\ ~IsRunUnit(level[h + 1])
    /\ \A k \in c..(h - 1) : IsRunUnit(level[k + 1])

\* the children of the node P that are members of a compressed run
RunMembers(level, P) ==
  IF IsErr(P.fc) \/ IsErr(P.ch) THEN {}
  ELSE {c \in (P.fc..(P.ch - 1)) \cap (1..(Len(level) - 1)) :
          level[c + 1].flag # TRUE /\ RunLo(level, c) < RunHi(level, c)}

\* radix of the child c of P is the descriptor of the run lo..hi
RadixIsRun(ft, level, P, c, lo, hi) ==
  /\ radix(ft, P, c) =
       [word |-> [k \in 1..(hi - lo + 1) |-> level[lo + k].letter],
        loc |-> lo - P.fc,
        branch |-> hi]
  /\ radixPut(ft, c) = [lo |-> lo, hi |-> hi]

\* C23 for the level order of the trie that was frozen
RadixOfRuns(ft, level) ==
  \A pi \in 0..(Len(level) - 1) :
    \A c \in RunMembers(level, FrozenTrieNode(ft, pi)) :
      RadixIsRun(ft, level, FrozenTrieNode(ft, pi), c,
                 RunLo(level, c), RunHi(level, c))

\* C23: for every letter child C of a node P that belongs to a compressed
\* run, radix(P) without a cache gives the same descriptor whichever member
\* of the run C is: word is the letters of the whole run, loc the
\* child-local index of the run's first unit, branch the terminating node,
\* and the range put in the cache is the trie indices of the run.
C23_RadixOfAnyRunMember ==
  (trFrozen.frozen /\ trFrozen.err = 0) =>
    RadixOfRuns(trFrozen.ft, trEncoded.level)

\* some node whose firstChild and childCount select gives has a run of
\* three entries or more among its children, flag units before it
RunWitness(ft, level) ==
  \E pi \in 0..(Len(level) - 1) :
    \E c \in RunMembers(level, FrozenTrieNode(ft, pi)) :
      /\ RunLo(level, c) < c
      /\ c < RunHi(level, c)

\* a frozen trie has a run whose first, middle and last member radix was
\* asked of
C23_Witness ==
  /\ trFrozen.frozen
  /\ trFrozen.err = 0
  /\ RunWitness(trFrozen.ft, trEncoded.level)

\* C4: after any lex-ordered sequence of inserts the builder's nodeCount is
\* the number of entries level order emits, so the child-count stream that
\* encode writes is 2 * nodeCount + 1 bits long and the letter stream
\* starts at letterStart = 2 * nodeCount + 1.
C4_NodeCountIsLevelOrderLength ==
  trEncoded.built =>
    /\ trEncoded.levlen = trEncoded.nodecount
    /\ trEncoded.nodecount = trTrie.nodeCount
    /\ trEncoded.letterStart = 2 * trEncoded.nodecount + 1

\* a trie encoded under optflags after a host was repeated with four
\* ordinals (its raw list grew, then became a bitmap) and two subdomains of
\* it split the path below it
C4_Witness ==
  /\ trEncoded.built
  /\ trCfg.optflags
  /\ Cardinality(OrdsOf(HostA)) = 4
  /\ HostBdotA \in Keys
  /\ HostCdotA \in Keys
  /\ trTrie.err = "none"

\* the flag node of the node of host "a", the first node below the root
\* when the first word inserted is one of that host
HostAFlagNode == trTrie.nodes[trTrie.nodes[2].children[1]]

\* host "a" was inserted first, under optflags
HostAFirst ==
  /\ trCfg.optflags
  /\ Len(trWords) > 0
  /\ trWords[1].host = HostA

\* C13: scenario S6 (6-bit codec, optflags on): after 4 inserts of the same
\* host with 4 different ordinals the flag children still hold the raw
\* ordinal list (the 5th ordinal upgrades it), and what the frozen trie
\* returns for the host, raw list or bitmap, decodes to the ordinals
\* inserted.
C13_RawListOfFourAsStated ==
  /\ (HostAFirst /\ Cardinality(OrdsOf(HostA)) = 4) =>
       /\ HostAFlagNode.hasopt
       /\ SeqRange(HostAFlagNode.optletter) = OrdsOf(HostA)
  /\ (HostAFirst /\ Looked /\ trLookup.host = HostA) =>
       /\ trLookup.err = 0
       /\ MapHas(trLookup.map, HostA, OrdsOf(HostA))

----------------------------------------------------------------------------
(* The scenario specification: the trie of the hosts com, example.com and  *)
(* www.example.com, each of the hosts file of ordinal 1, is built, frozen  *)
(* and looked up.                                                          *)

\* the texts "com", "example.com", "www.example.com", "org", "example.org"
HostCom == << 99, 111, 109 >>
HostExampleCom == << 101, 120, 97, 109, 112, 108, 101, 46 >> \o HostCom
HostWwwExampleCom == << 119, 119, 119, 46 >> \o HostExampleCom
HostOrg == << 111, 114, 103 >>
HostExampleOrg == << 101, 120, 97, 109, 112, 108, 101, 46 >> \o HostOrg

ScenarioPool ==
  {[host |-> HostCom, ord |-> 1], [host |-> HostExampleCom, ord |-> 1],
   [host |-> HostWwwExampleCom, ord |-> 1]}

ScenarioHosts ==
  {HostCom, HostExampleCom, HostWwwExampleCom, HostOrg, HostExampleOrg, HostA}

NextS2 ==
  \/ \E e \in ScenarioPool : Insert(e)
  \/ Encode
  \/ Freeze
  \/ \E h \in ScenarioHosts : Lookup(h)

SpecS2 == Init /\ [][NextS2]_vars

\* C11: with the 6-bit codec, optflags and selectsearch, building from com,
\* example.com and www.example.com, each with ordinal 1, completes, and the
\* lookup of www.example.com returns exactly the three entries com -> {1},
\* example.com -> {1} and www.example.com -> {1}.
C11_ScenarioS2 ==
  (trCfg = config /\ Len(trWords) = 3 /\ trEncoded.built) =>
    /\ trFrozen.err = 0
    /\ (Looked /\ trLookup.host = HostWwwExampleCom) =>
         /\ trLookup.err = 0
         /\ Len(trLookup.map) = 3
         /\ \A h \in {HostCom, HostExampleCom, HostWwwExampleCom} :
              MapHas(trLookup.map, h, {1})

----------------------------------------------------------------------------
(* The optflags specification: tries built with optflags under the 6-bit   *)
(* and under the 8-bit codec, one host taking up to four ordinals.         *)

OptConfigs == {[config EXCEPT !.useCodec6 = u] : u \in BOOLEAN}

OptPool ==
  {[host |-> HostA, ord |-> 0], [host |-> HostA, ord |-> 1],
   [host |-> HostA, ord |-> 16], [host |-> HostA, ord |-> 255],
   [host |-> HostB, ord |-> 1]}

OptHosts == {HostA, HostB, HostAA}

InitOpt ==
  /\ BitsIdle /\ TagsIdle /\ RankIdle
  /\ trCfg \in OptConfigs
  /\ TrieFresh

NextOpt ==
  \/ \E e \in OptPool : Insert(e)
  \/ Encode
  \/ Freeze
  \/ \E h \in OptHosts : Lookup(h)

SpecOpt == InitOpt /\ [][NextOpt]_vars

\* the ordinals of the host are kept as a raw list: upsertFlag keeps the
\* list while it holds fewer than three ordinals before the push
StoredInline(h) ==
  /\ trCfg.optflags
  /\ Cardinality({k \in 1..Len(trWords) : trWords[k].host = h}) \in 1..3

\* C24: with optflags, under the 6-bit and the 8-bit codec, value() of a
\* final node whose tags were stored inline as raw ordinals is a bitmap
\* that decodes to exactly the stored ordinals.
C24_InlineOrdinalsDecode ==
  (Looked /\ trLookup.err = 0 /\ StoredInline(trLookup.host)) =>
    MapHas(trLookup.map, trLookup.host, OrdsOf(trLookup.host))

----------------------------------------------------------------------------
(* The insert specification: the builder is given words in any order, and  *)
(* words without a host or without a tag; an insert that threw ends the    *)
(* build.                                                                  *)

MaxInserts == 3

\* the words given: those of five (host, ordinal) pairs, the host "a" with
\* no tag, and the tag "#1" with no host
InsertWords(cfg) ==
  {hostWord(cfg, e.host, e.ord) :
     e \in {[host |-> HostA, ord |-> 0], [host |-> HostA, ord |-> 1],
            [host |-> HostBA, ord |-> 3], [host |-> HostBdotA, ord |-> 7],
            [host |-> HostB, ord |-> 1]}}
    \cup {transform(cfg, HostA), hostWord(cfg, << >>, 1)}

\* Trie.insert of a word, whatever was inserted before; trWords keeps the
\* words given
InsertWord(w) ==
  /\ trTrie.err = "none"
  /\ Len(trWords) < MaxInserts
  /\ trTrie' = insert(trTrie, trCfg, w)
  /\ trWords' = Append(trWords, w)
  /\ UNCHANGED << trCfg, trEncoded, trFrozen, trLookup >>
  /\ UNCHANGED << varsBits, varsTags, varsRank >>

NextInsert == \E w \in InsertWords(trCfg) : InsertWord(w)

SpecInsert == Init /\ [][NextInsert]_vars

\* the word has no tag delimiter, or nothing before its last one
MissingDelim(w) == \A k \in 2..Len(w) : w[k] # delimEncoded(trCfg)[1]

\* C14: insert raises an error when the word given is not in lex order
\* after the word inserted before it (a host that is a proper prefix of, or
\* sorts before, the previous host); it never silently accepts such a word.
C14_OutOfOrderInsertRaises ==
  (\E k \in 2..Len(trWords) : lex(trWords[k - 1], trWords[k]) > 0) =>
    trTrie.err # "none"

\* C15: insert of a word with no tag delimiter, or whose last delimiter is
\* at position 0, raises an error and leaves the node table, the path cache
\* and nodeCount as they were before the call.
C15_MissingDelimLeavesBuilder ==
  [][(Len(trWords') = Len(trWords) + 1 /\ MissingDelim(trWords'[Len(trWords')])) =>
       /\ trTrie'.err = "missing delim"
       /\ [trTrie' EXCEPT !.err = "none"] = trTrie]_vars

\* a word with no delimiter was given to a builder that held two words
C15_Witness ==
  /\ Len(trWords) = 3
  /\ MissingDelim(trWords[3])
  /\ ~MissingDelim(trWords[1]) /\ ~MissingDelim(trWords[2])
  /\ trTrie.err = "missing delim"
  /\ trTrie.nodeCount > 4

\* C20: when upsertFlag creates the flag child of a node, the children the
\* node had stay its children, after the flag child: no letter node of the
\* trie is lost from it by an insert.
C20_InsertKeepsSubtrees ==
  [][trTrie'.root # 0 =>
       \A id \in TrieNodes(trTrie) :
         ~trTrie.nodes[id].flag => id \in TrieNodes(trTrie')]_vars

----------------------------------------------------------------------------
(* The lookup, round by round: a trie is built, encoded and frozen as in   *)
(* the trie specification, and a lookup in it is followed through the      *)
(* rounds of its outer loop and of its binary search; the caller then      *)
(* looks the same array up once more.                                      *)

\* the texts "", "a." (its word begins with the label separator) and "ab"
HostNone == << >>
HostAdot == << 97, 46 >>
HostAB == << 97, 98 >>
\* the texts "a!" and "!a": '!' is no character of the codec, and the unit
\* it encodes to is the first of the word of "a!", the last of that of "!a"
HostABang == << 97, 33 >>
HostBangA == << 33, 97 >>

\* the lookups a caller makes of one trie
MaxLookups == 3

\* the (host, blocklist ordinal) pairs of the tries looked up round by round
RoundPool ==
  {[host |-> HostA, ord |-> 0], [host |-> HostBdotA, ord |-> 7],
   [host |-> HostCdotA, ord |-> 7], [host |-> HostBA, ord |-> 3],
   [host |-> HostAB, ord |-> 3], [host |-> HostB, ord |-> 1]}

\* the hosts looked up round by round
RoundHosts ==
  {HostNone, HostAdot, HostA, HostB, HostBA, HostAB, HostBdotA, HostCdotA,
   HostDdotA, HostABang, HostBangA}

\* the hosts looked up next in a trie whose cache earlier lookups filled
CacheHosts == {HostBA, HostAB, HostCdotA}

\* a lookup in progress or returned, and a lookup returned
InLookup == trLookup.op \in {"outer", "inner", "done"}
Returned == trLookup.op = "done"

\* the caller's lookup(array) of a host, array the host transformed, up to
\* the first round of the loop; the trie was made with or without a cache
LookupEnter(h, nodecache) ==
  /\ trFrozen.frozen /\ trFrozen.err = 0
  /\ trLookup = NoLookup
  /\ trLookup' = [host |-> h, calls |-> 1, first |-> << >>]
                   @@ lookupEnter(trFrozen.ft, transform(trCfg, h), nodecache)
  /\ UNCHANGED << trCfg, trTrie, trWords, trEncoded, trFrozen >>
  /\ UNCHANGED << varsBits, varsTags, varsRank >>

\* one round of the outer loop, up to the binary search or to the return
LookupRound ==
  /\ trLookup.op = "outer"
  /\ trLookup' = lookupRound(trFrozen.ft, trLookup)
  /\ UNCHANGED << trCfg, trTrie, trWords, trEncoded, trFrozen >>
  /\ UNCHANGED << varsBits, varsTags, varsRank >>

\* one round of the binary search among the children
LookupBisect ==
  /\ trLookup.op = "inner"
  /\ trLookup' = lookupBisect(trFrozen.ft, trLookup)
  /\ UNCHANGED << trCfg, trTrie, trWords, trEncoded, trFrozen >>
  /\ UNCHANGED << varsBits, varsTags, varsRank >>

\* the caller's next lookup(array) with the array of the lookup before,
\* the result of that one kept; the trie's cache is as it was left
LookupAgain ==
  /\ trLookup.op = "done" /\ trLookup.calls < MaxLookups
  /\ trLookup' = [host |-> trLookup.host, calls |-> trLookup.calls + 1,
                  first |-> << [err |-> trLookup.err, map |-> trLookup.map] >>]
                   @@ lookupEnter(trFrozen.ft, trLookup.arg, trLookup.nodecache)
  /\ UNCHANGED << trCfg, trTrie, trWords, trEncoded, trFrozen >>
  /\ UNCHANGED << varsBits, varsTags, varsRank >>

\* a lookup of another host in a trie with a cache, the cache as the
\* lookups before left it
LookupOther(h) ==
  /\ trLookup.op = "done" /\ trLookup.calls < MaxLookups
  /\ trLookup.nodecache.attached
  /\ trLookup' = [host |-> h, calls |-> trLookup.calls + 1, first |-> << >>]
                   @@ lookupEnter(trFrozen.ft, transform(trCfg, h),
                                  trLookup.nodecache)
  /\ UNCHANGED << trCfg, trTrie, trWords, trEncoded, trFrozen >>
  /\ UNCHANGED << varsBits, varsTags, varsRank >>

\* the cache drops an entry between two lookups
CacheEvict ==
  /\ trLookup.op = "done" /\ trLookup.calls < MaxLookups
  /\ \E e \in trLookup.nodecache.entries :
       trLookup' = [trLookup EXCEPT !.nodecache.entries = @ \ {e}]
  /\ UNCHANGED << trCfg, trTrie, trWords, trEncoded, trFrozen >>
  /\ UNCHANGED << varsBits, varsTags, varsRank >>

NextRounds ==
  \/ \E e \in RoundPool : Insert(e)
  \/ Encode
  \/ Freeze
  \/ \E h \in RoundHosts, nodecache \in {NoCache, NewCache, ThrowingCache} :
       LookupEnter(h, nodecache)
  \/ LookupRound
  \/ LookupBisect
  \/ LookupAgain
  \/ \E h \in CacheHosts : LookupOther(h)
  \/ CacheEvict

SpecRounds == Init /\ [][NextRounds]_vars

\* a round of one lookup: the step of LookupRound or of LookupBisect
SameLookup == trLookup.op \in {"outer", "inner"}

\* what a lookup w has left at most: the letters not read yet, each worth
\* more than any search interval of the trie, then the interval searched
LookupMeasure(w) ==
  IF w.op = "done" THEN 0
  ELSE (Len(w.word) - w.i) * (trEncoded.nodecount + 2)
         + (IF w.op = "inner" THEN w.high - w.low ELSE trEncoded.nodecount + 1) + 1

\* C26: lookup terminates on every word on every well-formed frozen trie:
\* each round of the binary search that searches on strictly shrinks the
\* interval (low, high), each outer round returns, throws or advances i by
\* at least one letter, so every round lessens what the lookup has left,
\* and the probes are never more than the word length times the children
\* of the trie.
C26_LookupTerminates ==
  [][SameLookup =>
       /\ (trLookup.op = "inner" /\ trLookup'.op = "inner") =>
            /\ trLookup'.high - trLookup'.low < trLookup.high - trLookup.low
            /\ trLookup'.low >= trLookup.low /\ trLookup'.high <= trLookup.high
            /\ trLookup'.i = trLookup.i
       /\ (trLookup.op = "inner" /\ trLookup'.op = "outer") =>
            /\ trLookup'.i > trLookup.i
            /\ trLookup'.i <= Len(trLookup.word)
       /\ (trLookup.op = "outer") => trLookup'.op \in {"inner", "done"}
       /\ LookupMeasure(trLookup') >= 0
       /\ LookupMeasure(trLookup') < LookupMeasure(trLookup)
       /\ trLookup'.rounds <= Len(trLookup.word) * (trEncoded.nodecount - 1)]_vars

\* a lookup that read its whole word and returned after it matched two
\* runs and probed a child that was not the one to go on from
C26_Witness ==
  /\ Returned /\ trLookup.err = 0
  /\ trLookup.steps >= 2
  /\ trLookup.rounds > trLookup.steps
  /\ trLookup.i = Len(trLookup.word)

\* C27: lookup in a trie with a radix cache, in any state earlier lookups
\* of the trie (and the cache's evictions) left the cache in, returns what
\* lookup with no cache returns: the descriptor radix gives at every probe,
\* found in the cache or not, is the descriptor radix reconstructs for the
\* probed index, and the result is the result of the lookup without cache.
C27_CachedLookupAgrees ==
  /\ (trLookup.op = "inner" /\ trLookup.nodecache.attached) =>
       lookupProbed(trFrozen.ft, trLookup).r
         = radix(trFrozen.ft, trLookup.node, lookupProbeIndex(trLookup))
  /\ (Returned /\ trLookup.nodecache.attached) =>
       [err |-> trLookup.err, map |-> trLookup.map]
         = lookup(trFrozen.ft, trLookup.passed)

\* a third lookup in a trie with a cache returned an entry after the cache
\* gave it a descriptor and a cursor, two runs being in the cache
C27_Witness ==
  /\ Returned /\ trLookup.nodecache.attached
  /\ trLookup.calls = 3
  /\ trLookup.hits >= 1
  /\ trLookup.cachecursor # << >>
  /\ Cardinality(trLookup.nodecache.entries) >= 2
  /\ trLookup.err = 0 /\ Len(trLookup.map) >= 1

\* the entries of a map are sound for a query host: each key was inserted,
\* its value decodes to the ordinals stored for it, and the key is the
\* host or a parent domain of it
EntriesSound(h, map) ==
  \A k \in 1..Len(map) :
    /\ map[k].key \in Keys
    /\ SeqRange(flagsToTags(map[k].value)) = OrdsOf(map[k].key)
    /\ (map[k].key = h \/ IsParentDomain(map[k].key, h))

\* C28: every entry of a lookup result is sound: its key is a host that was
\* inserted, its value is that host's stored ordinals, and the key is the
\* whole query or a suffix of it that follows a label separator.
C28_LookupEntriesSound ==
  (Returned /\ trLookup.calls = 1 /\ trLookup.err = 0) =>
    EntriesSound(trLookup.host, trLookup.map)

\* C29: the root of a frozen trie is never a final key: no lookup, of the
\* empty word or of a word that begins with the label separator, returns
\* an entry for the empty key.
C29_RootIsNeverAKey ==
  Returned => \A k \in 1..Len(trLookup.map) : trLookup.map[k].key # << >>

\* C30: lookup leaves the array the caller passed as it was, and the
\* caller's second lookup with the same array returns what the first did.
C30_LookupLeavesWordAlone ==
  Returned =>
    /\ trLookup.arg = trLookup.passed
    /\ trLookup.first # << >> =>
         trLookup.first[1] = [err |-> trLookup.err, map |-> trLookup.map]

====
